---- MODULE Spec2Model ----
(***************************************************************************)
(* Action execution engine of browser_use:                                 *)
(*   Controller.multi_act / Controller.act  (controller/service.py)        *)
(*   PlaywrightLogger                       (playwright_logger.py)         *)
(* A multi_act call is a process p; its awaits are the steps of the model. *)
(***************************************************************************)
EXTENDS Integers, Sequences, FiniteSets, TLC

\* ------------------------------------------------------------------ bounds
MaxIndex == 2           \* element indices on a page are 1..MaxIndex
MaxHash == 2            \* branch-path hashes are 1..MaxHash
MaxBatch == 2           \* longest request list handed to multi_act
MaxWriteFailures == 1   \* audit writes that fail during one run
MaxLoggedActions == 1   \* actions a host logs by calling the logger itself
MaxInits == 2           \* loggers constructed on the log directory after the first
MaxCalls == 3           \* calls of get_playwright_logger

\* ------------------------------------------------------------------ values
None == "None"          \* Python None of an Optional[str]
NoIndex == 0            \* Python None of an Optional[int] element index
NoInfo == <<>>          \* Python None of an Optional[dict]

Indices == 1..MaxIndex
Hashes == 1..MaxHash

\* state.selector_map: index -> element (an element is its branch_path_hash)
SelectorMaps == UNION {[S -> Hashes] : S \in SUBSET Indices}

\* set(e.hash.branch_path_hash for e in selector_map.values())
path_hashes(selector_map) == {selector_map[k] : k \in DOMAIN selector_map}

\* what store_element_info reads from a DOMElementNode: its text content,
\* its visibility and its attributes (here: an optional value attribute)
Texts == {"A", "B"}
Attributes == UNION {[S -> Texts] : S \in SUBSET {"value"}}
NodeProps == [text_content : Texts, is_visible : BOOLEAN, attributes : Attributes]
DefaultProps == [text_content |-> "A", is_visible |-> TRUE, attributes |-> <<>>]

\* Python truthiness of an Optional[str]
Truthy(s) == s # None /\ s # ""

\* browser_use.agent.views.ActionResult
ActionResult(extracted_content, err, is_done, include_in_memory) ==
    [extracted_content |-> extracted_content, error |-> err,
     is_done |-> is_done, include_in_memory |-> include_in_memory]

\* ActionModel instances a planner can emit: one action name, optional index
IndexedActions == {"click_element", "input_text"}
PlainActions == {"go_to_url", "done"}
ActionModels ==
    {[name |-> n, index |-> k] : n \in IndexedActions, k \in Indices}
        \cup {[name |-> n, index |-> NoIndex] : n \in PlainActions}

\* the two actions on a native dropdown, which take an index as well
DropdownActions == {"get_dropdown_options", "select_dropdown_option"}
DropdownActionModels ==
    {[name |-> n, index |-> k] : n \in DropdownActions, k \in Indices}

\* ActionModel.get_index(): the index parameter of the action, if it has one
get_index(action) == action.index

RECURSIVE SeqsUpTo(_, _)
SeqsUpTo(S, n) ==
    IF n = 0 THEN {<<>>}
    ELSE LET shorter == SeqsUpTo(S, n - 1)
         IN shorter \cup {Append(s, x) : s \in {t \in shorter : Len(t) = n - 1}, x \in S}

\* an action registered with the Controller.action decorator, and an action
\* that only the registry of another controller knows
CustomActions == {"custom_action"}
ForeignActions == {"foreign_action"}
CustomActionModels ==
    {[name |-> n, index |-> NoIndex] : n \in CustomActions \cup ForeignActions}

\* messages of exceptions raised by the driver (str(e) may be empty)
DriverErrors == {"", "Timeout 30000ms exceeded"}

\* ------------------------------------------------------- action handlers
\* What a handler call does: it returns a value or raises, and leaves the
\* live page with selector map dom.  What the driver call changes on the page
\* (new elements, a new tab, a navigation) shows in the selector map when the
\* page has settled, at the wait that follows the action (sleep).
Empty == ActionResult(None, None, FALSE, FALSE)
ReturnValue(type, str, ar) == [type |-> type, str |-> str, ar |-> ar]
Return(ar, dom) ==
    [kind |-> "return", origin |-> "handler", value |-> ReturnValue("ActionResult", "", ar),
     message |-> None, dom |-> dom, driver |-> {}]
Raise(message, dom) ==
    [kind |-> "raise", origin |-> "handler", value |-> ReturnValue("NoneType", "", Empty),
     message |-> message, dom |-> dom, driver |-> {}]
\* the same outcome, reached with these calls of the browser context made
Calling(driver, outcome) == [outcome EXCEPT !.driver = driver]

MsgClickNotExist(index) ==
    "Element with index " \o ToString(index)
        \o " does not exist - retry or use alternative actions"
MsgInputNotExist(index) ==
    "Element index " \o ToString(index)
        \o " does not exist - retry or use alternative actions"
MsgFileUpload(index) ==
    "Index " \o ToString(index)
        \o " - has an element which opens file upload dialog"
MsgClicked(index) == "Clicked button with index " \o ToString(index)
MsgInput(index) == "Input text into index " \o ToString(index)
MsgNavigated == "Navigated to url"
MsgDone == "task text"
MsgDoneJson == "{\"answer\": \"task text\"}"

\* variant of done that does not end the task
done_unfinished(dom) ==
    {Return(ActionResult(c, None, FALSE, FALSE), dom) : c \in {MsgDone, MsgDoneJson}}

\* done: registered with the custom output model (50-52: the content is
\* params.model_dump_json()) or with DoneAction (55-57: params.text)
done(dom) ==
    {Return(ActionResult(c, None, TRUE, FALSE), dom) : c \in {MsgDone, MsgDoneJson}}

\* go_to_url: page.goto / wait_for_load_state may raise; the page is replaced
go_to_url(dom) ==
    {Raise(m, dom) : m \in DriverErrors}
        \cup {Return(ActionResult(MsgNavigated, None, FALSE, TRUE), dom)}

\* variant of the file upload branch that clicks all the same
file_uploader_clicked(index, dom) ==
    {Calling({"is_file_uploader", "_click_element_node"},
             Return(ActionResult(MsgClicked(index), None, FALSE, TRUE), dom))}

\* lines 101-105: browser.is_file_uploader(element_node) is true, no click
file_uploader(index, dom) ==
    {Calling({"is_file_uploader"},
             Return(ActionResult(MsgFileUpload(index), None, FALSE, TRUE), dom))}

\* lines 107-123: the element is no file uploader and the driver clicks
clicked(index, dom) ==
    {Calling({"_click_element_node"}, o) :
        o \in \* browser._click_element_node raised e: ActionResult(error=str(e))
              {Return(ActionResult(None, m, FALSE, FALSE), dom) : m \in DriverErrors}
              \cup {Return(ActionResult(MsgClicked(index), None, FALSE, TRUE), dom)}}

\* variant of click_element without the test of line 95
click_element_unchecked(index, selector_map, dom) ==
    file_uploader(index, dom) \cup clicked(index, dom)

\* click_element: selector_map is session.cached_state.selector_map
click_element(index, selector_map, dom) ==
    IF index \notin DOMAIN selector_map
    THEN {Raise(MsgClickNotExist(index), dom)}
    ELSE file_uploader(index, dom) \cup clicked(index, dom)

\* variant of input_text without the test of its index
input_text_unchecked(index, selector_map, dom) ==
    {Raise(m, dom) : m \in DriverErrors}
        \cup {Return(ActionResult(MsgInput(index), None, FALSE, TRUE), dom)}

\* input_text: the driver call is not guarded, its exception leaves the handler
input_text(index, selector_map, dom) ==
    IF index \notin DOMAIN selector_map
    THEN {Raise(MsgInputNotExist(index), dom)}
    ELSE {Raise(m, dom) : m \in DriverErrors}
         \cup {Return(ActionResult(MsgInput(index), None, FALSE, TRUE), dom)}

MsgKeyError(index) == ToString(index)
MsgOptions == "0: text=\"A\"\nUse the exact text string in select_dropdown_option"
MsgNoOptions == "No options found in any frame for dropdown"
MsgErrorGettingOptions(m) == "Error getting options: " \o m
MsgNotASelect(index) ==
    "Cannot select option: Element with index " \o ToString(index)
        \o " is a div, not a select"
MsgSelected == "selected option A with value ['a']"
MsgCouldNotSelect == "Could not select option 'A' in any frame"
MsgSelectionFailed(m) == "Selection failed: " \o m

\* get_dropdown_options, lines 274-339: selector_map[index] is not guarded
\* (KeyError); options are evaluated frame by frame, a frame that fails is
\* skipped; a failure outside the frames ends in the except clause of 335
get_dropdown_options(index, selector_map, dom) ==
    IF index \notin DOMAIN selector_map
    THEN {Raise(MsgKeyError(index), dom)}
    ELSE \* options found in some frame
         {Calling({"frame.evaluate"}, Return(ActionResult(MsgOptions, None, FALSE, TRUE), dom))}
         \* no frame has the dropdown, or frame.evaluate raised in every frame
         \cup {Calling({"frame.evaluate"} \cup failure,
                       Return(ActionResult(MsgNoOptions, None, FALSE, TRUE), dom)) :
                  failure \in {{}, {"raised"}}}
         \* page.frames raised e
         \cup {Calling({"page.frames", "raised"},
                       Return(ActionResult(MsgErrorGettingOptions(m), None, FALSE, TRUE), dom)) :
                  m \in DriverErrors}

\* select_dropdown_option, lines 345-436
select_dropdown_option(index, selector_map, dom) ==
    IF index \notin DOMAIN selector_map
    THEN {Raise(MsgKeyError(index), dom)}
    ELSE \* the element is no select: no driver call
         {Return(ActionResult(MsgNotASelect(index), None, FALSE, TRUE), dom)}
         \* selected in some frame
         \cup {Calling({"select_option"},
                       Return(ActionResult(MsgSelected, None, FALSE, TRUE), dom))}
         \* no frame has the dropdown, or select_option raised in every frame
         \cup {Calling({"select_option"} \cup failure,
                       Return(ActionResult(MsgCouldNotSelect, None, FALSE, TRUE), dom)) :
                  failure \in {{}, {"raised"}}}
         \* page.frames raised e
         \cup {Calling({"page.frames", "raised"},
                       Return(ActionResult(None, MsgSelectionFailed(m), FALSE, TRUE), dom)) :
                  m \in DriverErrors}

\* a handler registered by the host: nothing constrains what it returns
custom_action(dom) ==
    {[Return(Empty, dom) EXCEPT !.value = v] :
        v \in {ReturnValue("str", "custom text", Empty),
                ReturnValue("ActionResult", "", ActionResult("custom result", None, FALSE, TRUE)),
                ReturnValue("NoneType", "", Empty),
                ReturnValue("dict", "", Empty)}}

\* names registered by Controller._register_default_actions (those modelled)
registry == IndexedActions \cup PlainActions
MsgUnknownAction(action_name) == "Action " \o action_name \o " not found"

\* act, lines 724-731: normalization of the handler's return value
MsgInvalidResult == "Invalid action result type"

\* variant of the normalization that takes every return value as a result
Normalize_unchecked(value) == [ok |-> TRUE, action_result |-> value.ar]

Normalize(value) ==
    IF value.type = "str"
    THEN [ok |-> TRUE, action_result |-> ActionResult(value.str, None, FALSE, FALSE)]
    ELSE IF value.type = "ActionResult" THEN [ok |-> TRUE, action_result |-> value.ar]
    ELSE IF value.type = "NoneType" THEN [ok |-> TRUE, action_result |-> Empty]
    ELSE [ok |-> FALSE, action_result |-> Empty]

\* act, line 734: result_str
result_str(action_result) ==
    IF Truthy(action_result.extracted_content) THEN action_result.extracted_content
    ELSE "Success"

\* ------------------------------------------------------------------ state
VARIABLES
    dom,                    \* per browser context: selector map of the live page
    cached_state,           \* per browser context: session.cached_state.selector_map
    logger_browser_context, \* Controller.logger.browser_context
    logger_actions,         \* Controller.logger.actions
    log_file,               \* entries written to automation_log.log
    json_log_file,          \* "actions" list stored in automation_log.json
    now,                    \* datetime.now()
    write_failures,         \* audit writes that have failed so far
    fault_budget,           \* audit writes the file system will fail in this run
    pc,                     \* per multi_act call: where the coroutine is suspended
    actions,                \* multi_act argument
    browser_context,        \* multi_act argument
    check_for_new_elements, \* multi_act argument
    cached_path_hashes,     \* multi_act local
    new_path_hashes,        \* multi_act local
    results,                \* multi_act local
    i,                      \* multi_act loop index, counted from 1
    frame,                  \* locals of the running act call
    custom_actions,         \* names registered through Controller.action
    action_model_fields,    \* per caller: action names its planner's ActionModel carries
    node_props,             \* per browser context: properties of the cached nodes
    host,                   \* a host that calls the logger itself: its locals
    backups,                \* automation_log_<timestamp>.log/.json: name and content
    hist                    \* history of the call, for stating properties

vars == <<dom, cached_state, logger_browser_context, logger_actions, log_file,
          json_log_file, now, write_failures, fault_budget, pc, actions, browser_context,
          check_for_new_elements, cached_path_hashes, new_path_hashes, results,
          i, frame, custom_actions, action_model_fields, node_props, host,
          backups, hist>>

browser_vars == <<dom, cached_state>>
logger_vars == <<logger_browser_context, logger_actions, log_file, json_log_file,
                 write_failures, fault_budget>>
call_vars == <<actions, browser_context, check_for_new_elements, cached_path_hashes>>
registry_vars == <<custom_actions, action_model_fields>>
host_vars == <<node_props, host, backups>>

\* Registry.execute_action: look the handler up by name and call it
execute_action(action_name, index, selector_map, live) ==
    IF action_name \notin registry \cup DropdownActions \cup custom_actions
    THEN {[Raise(MsgUnknownAction(action_name), live) EXCEPT !.origin = "registry"]}
    ELSE IF action_name = "click_element" THEN click_element(index, selector_map, live)
    ELSE IF action_name = "input_text" THEN input_text(index, selector_map, live)
    ELSE IF action_name = "go_to_url" THEN go_to_url(live)
    ELSE IF action_name = "done" THEN done(live)
    ELSE IF action_name = "get_dropdown_options"
    THEN get_dropdown_options(index, selector_map, live)
    ELSE IF action_name = "select_dropdown_option"
    THEN select_dropdown_option(index, selector_map, live)
    ELSE custom_action(live)

\* request lists a caller can hand to multi_act
Batches(p) ==
    SeqsUpTo({a \in ActionModels \cup DropdownActionModels \cup CustomActionModels :
                 a.name \in action_model_fields[p]}, MaxBatch)

\* the request lists of a planner that plans further ahead
MaxLongBatch == 3
LongBatches(p) ==
    SeqsUpTo({a \in ActionModels : a.name \in action_model_fields[p]}, MaxLongBatch)

\* act, lines 490-495 and 712-714: locals before anything is extracted
NoFrame ==
    [action_name |-> "unknown", element_index |-> NoIndex, element_details |-> FALSE,
     pre_action_element_info |-> NoInfo, action_result |-> <<>>,
     result_str |-> None, error |-> None, exc |-> None,
     caller |-> "multi_act"]    \* who awaits the call: line 469, or the host itself

NoHist ==
    [stop_reason |-> None,      \* which break or loop exit ended the batch
     act_calls |-> <<>>,        \* request positions handed to act, in call order
     dispatched |-> <<>>,       \* request positions handed to execute_action
     result_of |-> <<>>,        \* result_of[k]: request position that produced results[k]
     checked_at |-> 0,          \* request position of the last staleness re-read
     prior_hashes |-> {},       \* hashes of the session's cached state before that re-read
     failed_writes |-> {},      \* audit writes that failed in the current act call
     raised_in |-> None,        \* statement that raised the propagating exception
     returned |-> <<>>,         \* value the current handler returned
     handler_raised |-> None,   \* message of the exception the current handler raised
     missing_target |-> FALSE,  \* the current click_element names an unmapped index
     driver |-> {},             \* what the current handler asked of the browser context
     records |-> <<>>,          \* audit records made for the current act call
     handler_failed |-> FALSE,  \* some handler raised or returned an error
     structure_changed |-> FALSE] \* the page's selector map changed since batch start

\* line 882: _instance = None
NoInstance == [id |-> 0, log_dir |-> None]

\* locals of a host between its two calls of the logger
NoHost ==
    [pc |-> "idle", action_type |-> "unknown", element_index |-> NoIndex,
     pre |-> NoInfo,            \* what log_action_before_execute returned
     pre_arg |-> NoInfo,        \* pre_action_element_info of the last post call
     post |-> NoInfo,           \* post-action snapshot of the last post call
     returned |-> <<>>,         \* what log_action_after_execute returned
     outcome |-> [result |-> None, error |-> None],  \* result and error last reported
     failed_writes |-> {},      \* log writes that failed in the last logger call
     exc |-> None,              \* exception the last logger call raised
     logged |-> 0,              \* actions logged so far
     inits |-> 0,               \* loggers constructed on the directory since Init
     stamp |-> 0,               \* timestamp of the last construction
     prior_log |-> <<>>,        \* text log found by the last construction
     prior_json |-> <<>>,       \* JSON log found by the last construction
     failed |-> {},             \* file operations that failed in the last construction
     since_init |-> 0,          \* logger calls since the last construction
     instance |-> NoInstance,   \* _instance of the module: which logger, on which log_dir
     constructed |-> 0,         \* loggers that get_playwright_logger has constructed
     other_inits |-> 0,         \* loggers constructed on the other directory
     calls |-> 0,               \* calls of get_playwright_logger
     arg |-> None]              \* log_dir of the last call

\* Controller.__init__ and PlaywrightLogger.__init__ have run; no call yet
InitWith(procs, contexts, faults, custom, planners, logger_contexts, maps) ==
    /\ node_props = [c \in contexts |-> [k \in Indices |-> DefaultProps]]
    /\ host = NoHost
    /\ backups = {}
    /\ dom \in [contexts -> maps]
    /\ fault_budget = faults
    /\ custom_actions = custom
    /\ action_model_fields = planners
    /\ cached_state = dom
    /\ logger_browser_context \in logger_contexts
    /\ logger_actions = <<>>
    /\ log_file = <<>>
    /\ json_log_file = <<>>
    /\ now = 0
    /\ write_failures = 0
    /\ pc = [p \in procs |-> "idle"]
    /\ actions = [p \in procs |-> <<>>]
    /\ browser_context = [p \in procs |-> None]
    /\ check_for_new_elements = [p \in procs |-> TRUE]
    /\ cached_path_hashes = [p \in procs |-> {}]
    /\ new_path_hashes = [p \in procs |-> {}]
    /\ results = [p \in procs |-> <<>>]
    /\ i = [p \in procs |-> 1]
    /\ frame = [p \in procs |-> NoFrame]
    /\ hist = [p \in procs |-> NoHist]

\* every caller's planner emits the same actions, on any page
InitFor(procs, contexts, faults, custom, fields, logger_contexts) ==
    InitWith(procs, contexts, faults, custom, [p \in procs |-> fields],
             logger_contexts, SelectorMaps)

\* one batch on one browser context, the log directory stays writable
Init == InitFor({1}, {"ctx1"}, 0, {}, registry, {None})

\* the same with a file system that fails up to MaxWriteFailures audit writes
InitIO == InitFor({1}, {"ctx1"}, MaxWriteFailures, {}, registry, {None})

\* a host that registered a custom action, and a planner whose ActionModel
\* also carries an action of another registry
InitCustom ==
    InitFor({1}, {"ctx1"}, 0, CustomActions,
            {"click_element", "done"} \cup CustomActions \cup ForeignActions, {None})

\* two callers run batches on one Controller, each on its own browser
\* context: the planner of the first one emits clicks, the planner of the
\* second one an empty request list; every index of both pages is mapped
\* when they start
InitConcurrent ==
    InitWith({1, 2}, {"ctx1", "ctx2"}, 0, {},
             [p \in {1, 2} |-> IF p = 1 THEN {"click_element"} ELSE {}],
             {None}, {[k \in Indices |-> 1]})

\* two callers of one Controller that work on one browser context, one
\* after the other; both planners emit clicks, every index is mapped at first
InitSequential ==
    InitWith({1, 2}, {"ctx1"}, 0, {}, [p \in {1, 2} |-> {"click_element"}],
             {None}, {[k \in Indices |-> 1]})

\* two callers of one Controller, one after the other and each with a
\* browser context of its choice out of two; the first call ends a task,
\* the second one clicks
InitDirect ==
    InitWith({1, 2}, {"ctx1", "ctx2"}, 0, {},
             [p \in {1, 2} |-> IF p = 1 THEN {"done"} ELSE {"click_element"}],
             {None}, {[k \in Indices |-> 1]})

\* a planner that emits clicks only, in lists of up to MaxLongBatch requests
InitFrame == InitFor({1}, {"ctx1"}, 0, {}, {"click_element"}, {None})

\* a planner that works on dropdowns and clicks
InitDropdown ==
    InitFor({1}, {"ctx1"}, 0, {}, DropdownActions \cup {"click_element"}, {None})

\* no batch: a host drives a logger made with or without a browser context
InitLogger == InitFor({}, {"ctx1"}, 0, {}, registry, {None, "ctx1"})

\* the same on a file system that fails some writes
InitLoggerIO == InitFor({}, {"ctx1"}, MaxWriteFailures, {}, registry, {None, "ctx1"})

Procs == DOMAIN pc

\* ------------------------------------------------------------- multi_act
\* variants of the staleness test: never stale; stale on any difference
IsStale_never(check, new_hashes, cached_hashes) == FALSE
IsStale_on_any_difference(check, new_hashes, cached_hashes) ==
    check /\ new_hashes # cached_hashes

\* variant of the staleness test that does not look at check_for_new_elements
IsStale_unconditional(check, new_hashes, cached_hashes) ==
    ~(new_hashes \subseteq cached_hashes)

\* line 464: the batch stops when an unseen branch-path hash is on the page
IsStale(check, new_hashes, cached_hashes) ==
    check /\ ~(new_hashes \subseteq cached_hashes)

\* variant of the test: every request is checked
NeedsCheck_always(action, k) == TRUE

\* line 461: only an indexed request after the first one is checked
NeedsCheck(action, k) == get_index(action) # NoIndex /\ k # 1

\* variant of the iteration: the list is walked from its end
enumerate_reversed(acts, k) == acts[Len(acts) + 1 - k]

\* line 460: enumerate(actions) pairs position k with the k-th request ...
enumerate(acts, k) == acts[k]

\* variant of the step: the loop stays on the position it has executed
NextIndex_repeating(k) == k

\* ... and moves to the next position
NextIndex(k) == k + 1

\* variant of the break that does not test for the last request
StopCondition_without_last(result, k, n) == result.is_done \/ Truthy(result.error)

\* line 472: the break after an executed action
StopCondition(result, k, n) == result.is_done \/ Truthy(result.error) \/ k = n

StopReason(result) ==
    IF result.is_done THEN "AbortedByDone"
    ELSE IF Truthy(result.error) THEN "AbortedByError"
    ELSE "Completed"

\* the browser contexts a caller can pass: a batch owns its session for its
\* duration, so none that a running batch of another caller holds
Running(q) == pc[q] \notin {"idle", "returned", "raised"}
Sessions(p) ==
    {c \in DOMAIN dom : \A q \in DOMAIN pc \ {p} : Running(q) => browser_context[q] # c}

\* line 455: browser_context.get_session() on a caller that passed no session
MsgNoSession == "'NoneType' object has no attribute 'get_session'"

\* lines 446-458: the call up to the loop, on a request list of 'batches'
multi_act_on(p, batches) ==
    /\ pc[p] = "idle"
    /\ \E acts \in batches, bc \in Sessions(p) \cup {None}, check \in BOOLEAN :
        /\ actions' = [actions EXCEPT ![p] = acts]
        /\ browser_context' = [browser_context EXCEPT ![p] = bc]
        /\ check_for_new_elements' = [check_for_new_elements EXCEPT ![p] = check]
        /\ logger_browser_context' = bc
        /\ IF bc = None
           THEN /\ pc' = [pc EXCEPT ![p] = "raised"]
                /\ frame' = [frame EXCEPT ![p].exc = MsgNoSession]
                /\ hist' = [hist EXCEPT ![p].raised_in = "session"]
                /\ UNCHANGED cached_path_hashes
           ELSE /\ cached_path_hashes' =
                      [cached_path_hashes EXCEPT ![p] = path_hashes(cached_state[bc])]
                /\ pc' = [pc EXCEPT ![p] = "for"]
                /\ UNCHANGED <<frame, hist>>
    /\ results' = [results EXCEPT ![p] = <<>>]
    /\ i' = [i EXCEPT ![p] = 1]
    /\ UNCHANGED <<browser_vars, logger_actions, log_file, json_log_file, now,
                   write_failures, fault_budget, new_path_hashes, registry_vars, host_vars>>

\* multi_act called with a request list of at most MaxBatch requests
multi_act(p) == multi_act_on(p, Batches(p))

\* the calls are made one at a time, in the order of their callers: every
\* earlier call has returned or raised
InTurn(p) == \A q \in DOMAIN pc : q < p => pc[q] \in {"returned", "raised"}

\* multi_act called while no other call is under way
multi_act_in_turn(p) ==
    /\ InTurn(p)
    /\ multi_act(p)

\* lines 480-482: act called by the host itself, with one request and a
\* browser context, while no other call is under way
act_in_turn(p) ==
    /\ pc[p] = "idle"
    /\ InTurn(p)
    /\ \E action \in {a \in ActionModels : a.name \in action_model_fields[p]},
          bc \in Sessions(p) :
        /\ actions' = [actions EXCEPT ![p] = <<action>>]
        /\ browser_context' = [browser_context EXCEPT ![p] = bc]
    /\ i' = [i EXCEPT ![p] = 1]
    /\ frame' = [frame EXCEPT ![p].caller = "host"]
    /\ hist' = [hist EXCEPT ![p].act_calls = <<1>>]
    /\ pc' = [pc EXCEPT ![p] = "act"]
    /\ UNCHANGED <<browser_vars, logger_vars, now, check_for_new_elements,
                   cached_path_hashes, new_path_hashes, results, registry_vars, host_vars>>

\* multi_act called with a longer list
multi_act_long(p) == multi_act_on(p, LongBatches(p))

\* variant of the append that keeps the last result only
append_replacing(list, result) == <<result>>

\* line 469: results.append(...)
append(list, result) == Append(list, result)

\* lines 460-469: loop head, staleness re-read, call of act
for_loop(p) ==
    /\ pc[p] = "for"
    /\ LET bc == browser_context[p]
           k == i[p]
       IN IF k > Len(actions[p])
          THEN \* the list is exhausted (an empty batch): line 478
               /\ pc' = [pc EXCEPT ![p] = "returned"]
               /\ hist' = [hist EXCEPT ![p].stop_reason = "Completed"]
               /\ UNCHANGED <<cached_state, new_path_hashes>>
          ELSE IF NeedsCheck(enumerate(actions[p], k), k)
          THEN \* browser_context.get_state() refreshes the cached state
               LET new_hashes == path_hashes(dom[bc])
               IN /\ cached_state' = [cached_state EXCEPT ![bc] = dom[bc]]
                  /\ new_path_hashes' = [new_path_hashes EXCEPT ![p] = new_hashes]
                  /\ IF IsStale(check_for_new_elements[p], new_hashes, cached_path_hashes[p])
                     THEN /\ pc' = [pc EXCEPT ![p] = "returned"]
                          /\ hist' = [hist EXCEPT ![p].stop_reason = "AbortedByStaleness",
                                                  ![p].checked_at = k,
                                                  ![p].prior_hashes = path_hashes(cached_state[bc])]
                     ELSE /\ pc' = [pc EXCEPT ![p] = "act"]
                          /\ hist' = [hist EXCEPT ![p].checked_at = k,
                                                  ![p].prior_hashes = path_hashes(cached_state[bc]),
                                                  ![p].act_calls = Append(@, k)]
          ELSE /\ pc' = [pc EXCEPT ![p] = "act"]
               /\ hist' = [hist EXCEPT ![p].act_calls = Append(@, k)]
               /\ UNCHANGED <<cached_state, new_path_hashes>>
    /\ UNCHANGED <<dom, logger_vars, now, call_vars, results, i, frame,
                   registry_vars, host_vars>>

\* lines 469-473: append the result of act, then the stop conditions
multi_act_append(p) ==
    /\ pc[p] = "append"
    /\ IF frame[p].action_result = <<>>
       THEN \* act returned None: results[-1].is_done raises AttributeError
            /\ results' = [results EXCEPT ![p] = append(@, Empty)]
            /\ pc' = [pc EXCEPT ![p] = "raised"]
            /\ frame' = [frame EXCEPT ![p].exc = "'NoneType' object has no attribute 'is_done'"]
            /\ hist' = [hist EXCEPT ![p].raised_in = "multi_act",
                                    ![p].result_of = Append(@, i[p])]
       ELSE LET result == frame[p].action_result[1]
            IN /\ results' = [results EXCEPT ![p] = append(@, result)]
               /\ frame' = frame
               /\ IF StopCondition(result, i[p], Len(actions[p]))
                  THEN /\ pc' = [pc EXCEPT ![p] = "returned"]
                       /\ hist' = [hist EXCEPT ![p].stop_reason = StopReason(result),
                                               ![p].result_of = Append(@, i[p])]
                  ELSE /\ pc' = [pc EXCEPT ![p] = "sleep"]
                       /\ hist' = [hist EXCEPT ![p].result_of = Append(@, i[p])]
    /\ UNCHANGED <<browser_vars, logger_vars, now, call_vars,
                   new_path_hashes, i, registry_vars, host_vars>>

\* line 475: asyncio.sleep(wait_between_actions); the page goes on living
sleep(p) ==
    /\ pc[p] = "sleep"
    /\ \E d \in SelectorMaps :
        /\ dom' = [dom EXCEPT ![browser_context[p]] = d]
        /\ hist' = [hist EXCEPT ![p].structure_changed =
                        @ \/ d # dom[browser_context[p]]]
    /\ i' = [i EXCEPT ![p] = NextIndex(@)]
    /\ pc' = [pc EXCEPT ![p] = "for"]
    /\ UNCHANGED <<cached_state, logger_vars, now, call_vars,
                   new_path_hashes, results, frame, registry_vars, host_vars>>

\* ------------------------------------------------------ PlaywrightLogger
\* store_element_info: snapshot of the element, read through the logger's own
\* browser_context; None without a context or when the index is not mapped
store_element_info(context, element_index) ==
    IF context = None THEN NoInfo
    ELSE IF element_index \notin DOMAIN cached_state[context] THEN NoInfo
    ELSE LET element_node == node_props[context][element_index]
             element_info ==
                 [index |-> element_index, context |-> context,
                  text_content |-> element_node.text_content,
                  is_visible |-> element_node.is_visible,
                  attributes |-> element_node.attributes,
                  timestamp |-> now]
         IN \* lines 203-205: attributes copied to the top level
            IF "value" \in DOMAIN element_node.attributes
            THEN <<element_info @@ [value |-> element_node.attributes["value"]]>>
            ELSE <<element_info>>

\* variant of the comparison: every field of the pre-action snapshot
changes_of_all_fields(pre, post) ==
    IF pre = NoInfo \/ post = NoInfo THEN <<>>
    ELSE [key \in DOMAIN pre[1] \cap DOMAIN post[1] |->
             [before |-> pre[1][key], after |-> post[1][key]]]

\* variant of the comparison that takes a missing snapshot for one whose
\* fields are all None
changes_from_missing(pre, post) ==
    IF pre = NoInfo /\ post = NoInfo THEN <<>>
    ELSE IF post = NoInfo
    THEN [key \in DOMAIN pre[1] |-> [before |-> pre[1][key], after |-> None]]
    ELSE IF pre = NoInfo
    THEN [key \in DOMAIN post[1] |-> [before |-> None, after |-> post[1][key]]]
    ELSE [key \in {k \in DOMAIN pre[1] \cap DOMAIN post[1] : pre[1][k] # post[1][k]} |->
             [before |-> pre[1][key], after |-> post[1][key]]]

\* log_action_after_execute, lines 664-672: the diff of the two snapshots
changes(pre, post) ==
    IF pre = NoInfo \/ post = NoInfo THEN <<>>
    ELSE [key \in {k \in DOMAIN pre[1] \cap DOMAIN post[1] : pre[1][k] # post[1][k]} |->
             [before |-> pre[1][key], after |-> post[1][key]]]

\* variant of _save_json that writes the newest record only
save_json_last_only(all_actions, ok) ==
    IF ok THEN {<<all_actions[Len(all_actions)]>>} ELSE {json_log_file, <<>>}

\* _save_json: rewrites the whole file from self.actions (lines 811-812); a
\* failure is swallowed: open(..., 'w') failed and the file is as it was, or
\* json.dump failed after the file was truncated and no actions list is left
save_json(all_actions, ok) ==
    IF ok THEN {all_actions} ELSE {json_log_file, <<>>}

\* variant of the text write that opens the file with 'w'
write_log_overwriting(file, entry, ok) == IF ok THEN <<entry>> ELSE file

\* one "with open(self.log_file, 'a')" block; a failure is swallowed
write_log(file, entry, ok) == IF ok THEN Append(file, entry) ELSE file

Cost(ok) == IF ok THEN 0 ELSE 1

\* line 26: PLAYWRIGHT_MAX_RESULT_LENGTH of the environment (200 when not set)
MAX_RESULT_LENGTH == 20
Marker == "... (truncated)"

\* variant of the result text that is written whatever its length
result_text_in_full(result) == IF Truthy(result) THEN result ELSE None

\* lines 579-586 and 629-635: the result as the text log shows it; nothing is
\* written for an empty result
result_text(result) ==
    IF ~Truthy(result) THEN None
    ELSE IF Len(result) > MAX_RESULT_LENGTH
    THEN SubSeq(result, 1, MAX_RESULT_LENGTH) \o Marker
    ELSE result

\* lines 587-588 and 636-637: the error as the text log shows it
error_text(err) == IF Truthy(err) THEN err ELSE None

\* the POST-ACTION block (lines 563-609) and the summary (lines 616-644)
post_action_log(kind, timestamp, action_type, result, err) ==
    [kind |-> kind, action_type |-> action_type, timestamp |-> timestamp,
     status |-> IF Truthy(err) THEN "ERROR" ELSE "SUCCESS",
     result |-> result_text(result), error |-> error_text(err)]

\* lines 323-330 and 498-505: page.url of the current page of the logger's
\* own browser context; None without a context
current_url(context) == IF context = None THEN None ELSE "page of " \o context

\* log_action_before_execute, lines 426-437: the pre-action record
pre_action_info(timestamp, action_type, element_index, element_info, url) ==
    [timestamp |-> timestamp, action_type |-> action_type, phase |-> "pre-action",
     element_index |-> element_index, element_info |-> element_info,
     current_url |-> url]

\* variant of the post-action record that keeps the default action type
action_data_untyped(timestamp, action_type, element_index, result, err, diff, url) ==
    [timestamp |-> timestamp, phase |-> "post_action", action_type |-> "unknown",
     element_index |-> element_index, result |-> result, error |-> err,
     changes |-> diff, current_url |-> url]

\* log_action_after_execute, lines 674-689: the post-action record
action_data(timestamp, action_type, element_index, result, err, diff, url) ==
    [timestamp |-> timestamp, phase |-> "post_action", action_type |-> action_type,
     element_index |-> element_index, result |-> result, error |-> err,
     changes |-> diff, current_url |-> url]

\* PlaywrightLogger.__init__ assigns log_file and json_log_file only
has_element_details_log_file == FALSE
MsgNoAttribute ==
    "'PlaywrightLogger' object has no attribute 'element_details_log_file'"
MsgOSError == "[Errno 28] No space left on device"

\* act, line 672: open(self.logger.element_details_log_file, 'a'), unguarded
DetailsWriteOutcomes ==
    IF has_element_details_log_file THEN {"written", MsgOSError}
    ELSE {MsgNoAttribute}

\* ------------------------------------------------------------------- act
\* lines 498-515: element_index is taken for click_element and input_text
ExtractElementIndex(action) ==
    IF action.name \in {"click_element", "input_text"} THEN action.index ELSE NoIndex

\* lines 545-656: browser_context.get_element_by_index and the evaluations on
\* the handle succeed or fail; a failure leaves element_details empty
ElementDetailsOutcomes(element_index, selector_map, live) ==
    IF element_index # NoIndex /\ element_index \in DOMAIN selector_map
          /\ element_index \in DOMAIN live
    THEN BOOLEAN ELSE {FALSE}

\* lines 709 and 743: clock time that passes between start_time and end_time
Durations == {1}

\* variants of the except clause: without the raise; without the assignment
act_except_swallow(message) == [error |-> message, exc |-> None]
act_except_unrecorded(message) == [error |-> None, exc |-> message]

\* lines 736-739: error = str(e); raise e
act_except(message) == [error |-> message, exc |-> message]

\* lines 483-706: extraction, element details, pre-action record, details file
act_before(p) ==
    /\ pc[p] = "act"
    /\ LET action == enumerate(actions[p], i[p])
           bc == browser_context[p]
           action_name == action.name
           element_index == ExtractElementIndex(action)
           context == IF logger_browser_context = None THEN bc
                      ELSE logger_browser_context
           element_info == IF element_index # NoIndex
                           THEN store_element_info(context, element_index)
                           ELSE NoInfo
           pre == pre_action_info(now, action_name, element_index, element_info,
                                  current_url(context))
           entry == [kind |-> "PRE-ACTION", action_type |-> action_name, timestamp |-> now]
           appended == Append(logger_actions, pre)
       IN \E element_details \in
                 ElementDetailsOutcomes(element_index, cached_state[bc], dom[bc]),
             text_ok \in BOOLEAN, json_ok \in BOOLEAN, details \in DetailsWriteOutcomes :
           /\ write_failures + Cost(text_ok) + Cost(json_ok) <= fault_budget
           /\ write_failures' = write_failures + Cost(text_ok) + Cost(json_ok)
           /\ logger_browser_context' = context
           /\ logger_actions' = appended
           /\ json_log_file' \in save_json(appended, json_ok)
           /\ LET written == write_log(log_file, entry, text_ok)
                  failed == {w \in {"text", "json"} :
                                \/ w = "text" /\ ~text_ok
                                \/ w = "json" /\ ~json_ok}
                  locals == [NoFrame EXCEPT !.caller = frame[p].caller,
                                            !.action_name = action_name,
                                            !.element_index = element_index,
                                            !.element_details = element_details,
                                            !.pre_action_element_info = element_info]
              IN IF element_details /\ details # "written"
                 THEN \* the exception leaves act through line 806
                      /\ log_file' = written
                      /\ frame' = [frame EXCEPT ![p] = [locals EXCEPT !.exc = details]]
                      /\ hist' = [hist EXCEPT
                                    ![p].failed_writes = failed \cup {"element_details"},
                                    ![p].handler_raised = None,
                                    ![p].returned = <<>>,
                                    ![p].missing_target = FALSE, ![p].driver = {},
                                    ![p].records = <<pre>>,
                                    ![p].raised_in = "element_details_write"]
                      /\ pc' = [pc EXCEPT ![p] = "raised"]
                 ELSE /\ log_file' =
                            IF element_details
                            THEN Append(written, [kind |-> "PRE-ACTION ELEMENT DETAILS",
                                                  action_type |-> action_name,
                                                  timestamp |-> now])
                            ELSE written
                      /\ frame' = [frame EXCEPT ![p] = locals]
                      /\ hist' = [hist EXCEPT ![p].failed_writes = failed,
                                              ![p].handler_raised = None,
                                              ![p].returned = <<>>,
                                              ![p].missing_target = FALSE, ![p].driver = {},
                                              ![p].records = <<pre>>]
                      /\ pc' = [pc EXCEPT ![p] = "execute"]
    /\ UNCHANGED <<browser_vars, now, fault_budget, call_vars, new_path_hashes,
                   results, i, registry_vars, host_vars>>

\* a click_element request whose index is not in the selector map
MissingTarget(action, selector_map) ==
    action.name = "click_element" /\ action.index \notin DOMAIN selector_map

\* lines 708-739: remove_highlights, registry.execute_action, normalization
act_execute(p) ==
    /\ pc[p] = "execute"
    /\ LET action == enumerate(actions[p], i[p])
           bc == browser_context[p]
       IN \E o \in execute_action(frame[p].action_name, action.index,
                                  cached_state[bc], dom[bc]),
             elapsed \in Durations :
           /\ dom' = [dom EXCEPT ![bc] = o.dom]
           /\ now' = now + elapsed
           /\ LET normal == Normalize(o.value)
                  caught == act_except(IF o.kind = "raise" THEN o.message
                                       ELSE MsgInvalidResult)
              IN IF o.kind = "return" /\ normal.ok
                 THEN /\ frame' = [frame EXCEPT
                            ![p].action_result = <<normal.action_result>>,
                            ![p].result_str = result_str(normal.action_result)]
                      /\ hist' = [hist EXCEPT
                            ![p].dispatched = Append(@, i[p]),
                            ![p].returned = <<o.value>>,
                            ![p].missing_target = MissingTarget(action, cached_state[bc]),
                            ![p].driver = o.driver,
                            ![p].handler_failed = @ \/ normal.action_result.error # None,
                            ![p].structure_changed = @ \/ o.dom # dom[bc]]
                 ELSE /\ frame' = [frame EXCEPT ![p].error = caught.error,
                                                ![p].exc = caught.exc]
                      /\ hist' = [hist EXCEPT
                            ![p].dispatched = Append(@, i[p]),
                            ![p].returned = IF o.kind = "return" THEN <<o.value>> ELSE <<>>,
                            ![p].handler_raised =
                                IF o.kind = "raise" /\ o.origin = "handler" THEN o.message
                                ELSE None,
                            ![p].raised_in = IF o.kind = "raise" THEN o.origin ELSE "act",
                            ![p].missing_target = MissingTarget(action, cached_state[bc]),
                            ![p].driver = o.driver,
                            ![p].handler_failed = TRUE,
                            ![p].structure_changed = @ \/ o.dom # dom[bc]]
    /\ pc' = [pc EXCEPT ![p] = "finally"]
    /\ UNCHANGED <<cached_state, logger_vars, call_vars, new_path_hashes, results, i,
                   registry_vars, host_vars>>

\* lines 741-806: post-action record, then return action_result or re-raise
act_finally(p) ==
    /\ pc[p] = "finally"
    /\ LET f == frame[p]
           post_action_element_info ==
               IF f.element_index # NoIndex
               THEN store_element_info(logger_browser_context, f.element_index)
               ELSE NoInfo
           post == action_data(now, f.action_name, f.element_index, f.result_str, f.error,
                               changes(f.pre_action_element_info, post_action_element_info),
                               current_url(logger_browser_context))
           appended == Append(logger_actions, post)
           detail == post_action_log("POST-ACTION", now, f.action_name, f.result_str, f.error)
           summary == post_action_log("SUMMARY", now, f.action_name, f.result_str, f.error)
       IN \E detail_ok \in BOOLEAN, summary_ok \in BOOLEAN, json_ok \in BOOLEAN :
           /\ write_failures + Cost(detail_ok) + Cost(summary_ok) + Cost(json_ok)
                 <= fault_budget
           /\ write_failures' =
                 write_failures + Cost(detail_ok) + Cost(summary_ok) + Cost(json_ok)
           /\ logger_actions' = appended
           /\ log_file' = write_log(write_log(log_file, detail, detail_ok), summary, summary_ok)
           /\ json_log_file' \in save_json(appended, json_ok)
           /\ hist' = [hist EXCEPT ![p].failed_writes =
                          @ \cup {w \in {"text", "json"} :
                                     \/ w = "text" /\ ~(detail_ok /\ summary_ok)
                                     \/ w = "json" /\ ~json_ok},
                                   ![p].records = Append(@, post)]
    /\ pc' = [pc EXCEPT ![p] = IF frame[p].exc # None THEN "raised"
                                ELSE IF frame[p].caller = "multi_act" THEN "append"
                                ELSE "returned"]
    /\ UNCHANGED <<browser_vars, logger_browser_context, now, fault_budget,
                   call_vars, new_path_hashes, results, i, frame,
                   registry_vars, host_vars>>

\* ------------------------------------------- the logger called by a host
\* action types and outcomes a host reports
HostActionTypes == {"click_element"}
HostOutcomes ==
    {[result |-> "Success", error |-> None],
     [result |-> MsgClicked(1), error |-> None],
     [result |-> None, error |-> "Timeout 30000ms exceeded"]}

\* a snapshot a host made itself and passes as pre_action_element_info
HostSnapshots == {<<[text_content |-> "A", is_visible |-> TRUE]>>}

FailedWrites(text_ok, json_ok) ==
    {w \in {"text", "json"} : (w = "text" /\ ~text_ok) \/ (w = "json" /\ ~json_ok)}

\* variant of the except clauses that hands the failure of a write on
log_except_raising(failed) == IF failed = {} THEN None ELSE MsgOSError

\* lines 420-424, 442-446, 610-612, 642-644, 695-698, 815-817: the except
\* clause of each write reports the failure and the call goes on
log_except(failed) == None

\* log_action_before_execute, lines 289-448, called by a host
log_action_before_execute ==
    /\ host.pc = "idle"
    /\ host.logged < MaxLoggedActions
    /\ \E action_type \in HostActionTypes, element_index \in Indices \cup {NoIndex},
          text_ok \in BOOLEAN, json_ok \in BOOLEAN :
         LET element_info == IF element_index # NoIndex
                             THEN store_element_info(logger_browser_context, element_index)
                             ELSE NoInfo
             pre == pre_action_info(now, action_type, element_index, element_info,
                                    current_url(logger_browser_context))
             entry == [kind |-> "PRE-ACTION", action_type |-> action_type, timestamp |-> now]
             appended == Append(logger_actions, pre)
             failed == FailedWrites(text_ok, json_ok)
             exc == log_except(failed)
         IN /\ write_failures + Cost(text_ok) + Cost(json_ok) <= fault_budget
            /\ write_failures' = write_failures + Cost(text_ok) + Cost(json_ok)
            /\ logger_actions' = appended
            /\ log_file' = write_log(log_file, entry, text_ok)
            /\ json_log_file' \in save_json(appended, json_ok)
            /\ host' = [host EXCEPT !.pc = IF exc = None THEN "logged" ELSE "raised",
                                    !.action_type = action_type,
                                    !.element_index = element_index,
                                    !.pre = IF exc = None THEN element_info ELSE NoInfo,
                                    !.returned = <<>>,
                                    !.failed_writes = failed, !.exc = exc,
                                    !.since_init = @ + 1]
    /\ UNCHANGED <<browser_vars, logger_browser_context, now, fault_budget, pc, call_vars,
                   new_path_hashes, results, i, frame, registry_vars, node_props,
                   backups, hist>>

\* the host performs its action: time passes, the target's properties change
\* or the target leaves the selector map, and the session's state is cached
host_action ==
    /\ host.pc = "logged"
    /\ now' = now + 1
    /\ host' = [host EXCEPT !.pc = "acted"]
    /\ IF host.element_index = NoIndex \/ logger_browser_context = None
       THEN UNCHANGED <<cached_state, node_props>>
       ELSE LET context == logger_browser_context
                k == host.element_index
            IN \/ /\ k \in DOMAIN cached_state[context]
                  /\ cached_state' =
                        [cached_state EXCEPT ![context] =
                            [j \in DOMAIN @ \ {k} |-> @[j]]]
                  /\ UNCHANGED node_props
               \/ /\ \E props \in NodeProps :
                        node_props' = [node_props EXCEPT ![context][k] = props]
                  /\ UNCHANGED cached_state
    /\ UNCHANGED <<dom, logger_vars, pc, call_vars, new_path_hashes, results, i, frame,
                   registry_vars, backups, hist>>

\* log_action_after_execute, lines 450-700, called by a host
log_action_after_execute ==
    /\ host.pc = "acted"
    /\ \E pre_action_element_info \in {host.pre, NoInfo} \cup HostSnapshots, outcome \in HostOutcomes,
          detail_ok \in BOOLEAN, summary_ok \in BOOLEAN, json_ok \in BOOLEAN :
         LET action_type == host.action_type
             element_index == host.element_index
             post_action_element_info ==
                 IF element_index # NoIndex
                 THEN store_element_info(logger_browser_context, element_index)
                 ELSE NoInfo
             post == action_data(now, action_type, element_index, outcome.result,
                                 outcome.error,
                                 changes(pre_action_element_info, post_action_element_info),
                                 current_url(logger_browser_context))
             appended == Append(logger_actions, post)
             detail == post_action_log("POST-ACTION", now, action_type, outcome.result,
                                       outcome.error)
             summary == post_action_log("SUMMARY", now, action_type, outcome.result,
                                        outcome.error)
             failed == FailedWrites(detail_ok /\ summary_ok, json_ok)
             exc == log_except(failed)
         IN /\ write_failures + Cost(detail_ok) + Cost(summary_ok) + Cost(json_ok)
                  <= fault_budget
            /\ write_failures' =
                  write_failures + Cost(detail_ok) + Cost(summary_ok) + Cost(json_ok)
            /\ logger_actions' = appended
            /\ log_file' = write_log(write_log(log_file, detail, detail_ok), summary, summary_ok)
            /\ json_log_file' \in save_json(appended, json_ok)
            /\ host' = [host EXCEPT !.pc = IF exc = None THEN "idle" ELSE "raised",
                                    !.logged = @ + 1,
                                    !.pre_arg = pre_action_element_info,
                                    !.post = post_action_element_info,
                                    !.returned = IF exc = None THEN <<post>> ELSE <<>>,
                                    !.outcome = outcome,
                                    !.failed_writes = failed, !.exc = exc,
                                    !.since_init = @ + 1]
    /\ UNCHANGED <<browser_vars, logger_browser_context, now, fault_budget, pc, call_vars,
                   new_path_hashes, results, i, frame, registry_vars, node_props,
                   backups, hist>>

\* line 76: datetime.now().strftime("%Y%m%d_%H%M%S"), the time cut to seconds
TicksPerSecond == 2
strftime(t) == t \div TicksPerSecond

\* variant of the copy that is made of the file after its truncation
copy2_of_truncated(content, copies, name, ok) ==
    IF ok THEN {b \in copies : b.name # name} \cup {[name |-> name, content |-> <<>>]}
    ELSE copies

\* _backup_existing_logs: shutil.copy2(file, backup_path) replaces a file of
\* that name; a failure of the copy is logged as a warning
copy2(content, copies, name, ok) ==
    IF ok THEN {b \in copies : b.name # name} \cup {[name |-> name, content |-> content]}
    ELSE copies

\* _initialize_log_files: open(file, 'w') leaves a file without entries; a
\* failure is logged and leaves the file as it was
initialize(content, ok) == IF ok THEN <<>> ELSE content

\* PlaywrightLogger.__init__ on the directory of the run, lines 75-93; the
\* host, whose locals are h, makes the new logger with the browser context
\* of the one it replaces
PlaywrightLogger_on(h) ==
    /\ host.pc = "idle"
    /\ \E log_copy_ok \in BOOLEAN, json_copy_ok \in BOOLEAN,
          log_init_ok \in BOOLEAN, json_init_ok \in BOOLEAN :
         LET timestamp == strftime(now)
             cost == Cost(log_copy_ok) + Cost(json_copy_ok)
                         + Cost(log_init_ok) + Cost(json_init_ok)
             log_backup == copy2(log_file, backups, [ext |-> "log", timestamp |-> timestamp], log_copy_ok)
         IN /\ write_failures + cost <= fault_budget
            /\ write_failures' = write_failures + cost
            /\ backups' = copy2(json_log_file, log_backup, [ext |-> "json", timestamp |-> timestamp],
                                json_copy_ok)
            /\ log_file' = initialize(log_file, log_init_ok)
            /\ json_log_file' = initialize(json_log_file, json_init_ok)
            /\ logger_actions' = <<>>
            /\ host' = [h EXCEPT
                  !.inits = @ + 1, !.prior_log = log_file, !.prior_json = json_log_file,
                  !.since_init = 0, !.stamp = timestamp,
                  !.failed = {w \in {"log_copy", "json_copy", "log_init", "json_init"} :
                                 \/ w = "log_copy" /\ ~log_copy_ok
                                 \/ w = "json_copy" /\ ~json_copy_ok
                                 \/ w = "log_init" /\ ~log_init_ok
                                 \/ w = "json_init" /\ ~json_init_ok}]
    /\ host.inits < MaxInits
    /\ UNCHANGED <<browser_vars, logger_browser_context, now, fault_budget, pc, call_vars, new_path_hashes,
                   results, i, frame, registry_vars, node_props, hist>>

PlaywrightLogger_init == PlaywrightLogger_on(host)

\* line 24: DEFAULT_LOG_DIR, the directory of the run; and another directory
LogDir == "~/playwright_logs"
OtherDir == "other_logs"
LogDirArgs == {None, "", LogDir, OtherDir}

\* line 43: self.log_dir = log_dir or DEFAULT_LOG_DIR
log_dir_of(log_dir) == IF log_dir = None \/ log_dir = "" THEN LogDir ELSE log_dir

\* variant of the test that makes a logger whenever a log_dir is given
needs_instance_for_any_dir(instance, log_dir) == instance = NoInstance \/ log_dir # None

\* line 898: the test of get_playwright_logger
needs_instance(instance, log_dir) ==
    instance = NoInstance \/ (log_dir # None /\ log_dir # instance.log_dir)

\* get_playwright_logger(log_dir), lines 884-901
get_playwright_logger ==
    /\ host.pc = "idle"
    /\ \E log_dir \in LogDirArgs :
         LET called == [host EXCEPT !.calls = @ + 1, !.arg = log_dir]
             made == [called EXCEPT
                        !.constructed = @ + 1,
                        !.instance = [id |-> host.constructed + 1,
                                      log_dir |-> log_dir_of(log_dir)]]
         IN IF needs_instance(host.instance, log_dir)
            THEN IF log_dir_of(log_dir) = LogDir
                 THEN PlaywrightLogger_on(made)
                 ELSE /\ host.other_inits < MaxInits
                      /\ host' = [made EXCEPT !.other_inits = @ + 1]
                      /\ UNCHANGED <<browser_vars, logger_vars, now, pc, call_vars,
                                     new_path_hashes, results, i, frame, registry_vars,
                                     node_props, backups, hist>>
            ELSE /\ host' = called
                 /\ UNCHANGED <<browser_vars, logger_vars, now, pc, call_vars,
                                new_path_hashes, results, i, frame, registry_vars,
                                node_props, backups, hist>>
    /\ host.calls < MaxCalls

\* the logger that the host holds writes to the directory of the run
OnLogDir == host.instance = NoInstance \/ host.instance.log_dir = LogDir

\* ------------------------------------------------------------ specification
Next ==
    \E p \in Procs :
        \/ multi_act(p)
        \/ for_loop(p)
        \/ act_before(p)
        \/ act_execute(p)
        \/ act_finally(p)
        \/ multi_act_append(p)
        \/ sleep(p)

Spec == Init /\ [][Next]_vars

SpecIO == InitIO /\ [][Next]_vars

\* every await of a call that is under way completes: the handler and the
\* driver calls return or raise, the wait ends
Progress ==
    \E p \in Procs :
        \/ for_loop(p)
        \/ act_before(p)
        \/ act_execute(p)
        \/ act_finally(p)
        \/ multi_act_append(p)
        \/ sleep(p)

SpecFair == Init /\ [][Next]_vars /\ WF_vars(Progress)

SpecCustom == InitCustom /\ [][Next]_vars
SpecConcurrent == InitConcurrent /\ [][Next]_vars
SpecDropdown == InitDropdown /\ [][Next]_vars

NextFrame ==
    \E p \in Procs :
        \/ multi_act_long(p)
        \/ for_loop(p)
        \/ act_before(p)
        \/ act_execute(p)
        \/ act_finally(p)
        \/ multi_act_append(p)
        \/ sleep(p)

SpecFrame == InitFrame /\ [][NextFrame]_vars

NextSequential ==
    \E p \in Procs :
        \/ multi_act_in_turn(p)
        \/ for_loop(p)
        \/ act_before(p)
        \/ act_execute(p)
        \/ act_finally(p)
        \/ multi_act_append(p)
        \/ sleep(p)

SpecSequential == InitSequential /\ [][NextSequential]_vars

NextDirect ==
    \E p \in Procs :
        \/ multi_act_in_turn(p)
        \/ act_in_turn(p)
        \/ for_loop(p)
        \/ act_before(p)
        \/ act_execute(p)
        \/ act_finally(p)
        \/ multi_act_append(p)
        \/ sleep(p)

SpecDirect == InitDirect /\ [][NextDirect]_vars

NextLogger ==
    \/ log_action_before_execute
    \/ host_action
    \/ log_action_after_execute
    \/ PlaywrightLogger_init

SpecLogger == InitLogger /\ [][NextLogger]_vars

NextSingleton ==
    \/ OnLogDir /\ log_action_before_execute
    \/ host_action
    \/ log_action_after_execute
    \/ get_playwright_logger

SpecSingleton == InitLogger /\ [][NextSingleton]_vars

SpecLoggerIO == InitLoggerIO /\ [][NextLogger]_vars

\* ------------------------------------------------------------- properties
Range(seq) == {seq[k] : k \in DOMAIN seq}
Last(seq) == seq[Len(seq)]
Ascending(seq) == \A k \in DOMAIN seq : seq[k] = k

\* results a request can yield when its handler returns, whatever the page
ResultsOf(action) ==
    {Normalize(o.value).action_result :
        o \in {x \in UNION {execute_action(action.name, action.index, sm, sm) :
                                sm \in SelectorMaps} : x.kind = "return"}}

\* C1: the results list is the results of a prefix of the request list, in
\* request order: results[k] was produced by act on requests[k] and is a
\* result of that request's handler; act is called on positions 1, 2, ...
\* without a gap, and a handler is dispatched at most once per position.
C1_Ordering ==
    \A p \in Procs :
        /\ Len(hist[p].result_of) = Len(results[p])
        /\ Ascending(hist[p].result_of)
        /\ Ascending(hist[p].act_calls)
        /\ Len(results[p]) <= Len(hist[p].act_calls)
        /\ Len(hist[p].act_calls) <= Len(results[p]) + 1
        /\ Len(hist[p].act_calls) <= Len(actions[p])
        /\ \A k \in DOMAIN results[p] : results[p][k] \in ResultsOf(actions[p][k])
        /\ \A j, k \in DOMAIN hist[p].dispatched :
               j < k => hist[p].dispatched[j] < hist[p].dispatched[k]

\* two different requests were executed, in order, and the batch returned
C1_Witness ==
    \E p \in Procs :
        /\ pc[p] = "returned"
        /\ Len(results[p]) = 2
        /\ actions[p][1].name = "click_element"
        /\ actions[p][2].name = "done"
        /\ results[p][2].is_done

\* C2: a result whose error is set, or whose is_done is true, is the last
\* element of the results list.
C2_StopConditions ==
    \A p \in Procs :
        \A k \in DOMAIN results[p] :
            (results[p][k].error # None \/ results[p][k].is_done)
                => k = Len(results[p])

\* C3: with check_for_new_elements, when the hashes re-read before an indexed
\* request k > 1 contain a hash that was not recorded at batch start, the
\* batch returns the k-1 results it has and act is never called on request k
\* or a later one; and every indexed request after the first is re-read.
C3_StalenessAbort ==
    \A p \in Procs :
        /\ (/\ hist[p].checked_at > 0
            /\ check_for_new_elements[p]
            /\ ~(new_path_hashes[p] \subseteq cached_path_hashes[p]))
              => /\ pc[p] = "returned"
                 /\ hist[p].stop_reason = "AbortedByStaleness"
                 /\ Len(results[p]) = hist[p].checked_at - 1
                 /\ \A k \in Range(hist[p].act_calls) : k < hist[p].checked_at
        /\ (/\ pc[p] \in {"act", "execute", "finally", "append"}
            /\ i[p] > 1
            /\ get_index(actions[p][i[p]]) # NoIndex)
              => /\ hist[p].checked_at = i[p]
                 /\ new_path_hashes[p] = path_hashes(cached_state[browser_context[p]])

\* a first click, then the page shows an unseen hash, and the indexed second
\* request is not executed: exactly one result
C3_Witness ==
    \E p \in Procs :
        /\ hist[p].stop_reason = "AbortedByStaleness"
        /\ actions[p][1].name = "click_element"
        /\ Len(actions[p]) = 2
        /\ Len(results[p]) = 1
        /\ results[p][1].error = None
        /\ pc[p] = "returned"

\* C4: when the hashes re-read before request k are a subset of the hashes
\* recorded at batch start, the staleness check does not stop the batch and
\* act is called on request k.
C4_SubsetTolerance ==
    \A p \in Procs :
        (/\ hist[p].checked_at > 0
         /\ new_path_hashes[p] \subseteq cached_path_hashes[p])
            => /\ hist[p].stop_reason # "AbortedByStaleness"
               /\ hist[p].checked_at \in Range(hist[p].act_calls)

\* an element disappeared (a proper subset) and the second request ran
C4_Witness ==
    \E p \in Procs :
        /\ hist[p].checked_at = 2
        /\ new_path_hashes[p] \subseteq cached_path_hashes[p]
        /\ new_path_hashes[p] # cached_path_hashes[p]
        /\ check_for_new_elements[p]
        /\ 2 \in Range(hist[p].dispatched)
        /\ pc[p] = "returned"
        /\ Len(results[p]) = 2

\* where an exception that signals a mistake in the engine's wiring, not a
\* state of the page, is raised: unknown action name (registry), invalid
\* type of a handler's return value (act), logger attribute that does not
\* exist (element_details_write), no session passed (session)
WiringErrors == {"registry", "act", "element_details_write", "session"}
TerminalStates == {"Completed", "AbortedByStaleness", "AbortedByError", "AbortedByDone"}

Logged(p) ==
    IF pc[p] = "finally" THEN Len(hist[p].dispatched) - 1 ELSE Len(hist[p].dispatched)

\* C8: every action that act has dispatched to its handler has exactly one
\* pre-action and one post-action record, adjacent and in this order, both
\* of the action's type, the post-action record not earlier than the
\* pre-action record; the only other record is the pre-action record of a
\* call that has not reached its post-action logging.
C8_AuditCompleteness ==
    \A p \in Procs :
        /\ Ascending(hist[p].dispatched)
        /\ Len(logger_actions) \in {2 * Logged(p), 2 * Logged(p) + 1}
        /\ Len(logger_actions) = 2 * Logged(p) + 1 =>
              /\ Last(logger_actions).phase = "pre-action"
              /\ \/ pc[p] \in {"execute", "finally"}
                 \/ hist[p].raised_in = "element_details_write"
        /\ \A j \in 1..Logged(p) :
              /\ logger_actions[2 * j - 1].phase = "pre-action"
              /\ logger_actions[2 * j].phase = "post_action"
              /\ logger_actions[2 * j - 1].action_type = actions[p][j].name
              /\ logger_actions[2 * j].action_type = actions[p][j].name
              /\ logger_actions[2 * j].timestamp >= logger_actions[2 * j - 1].timestamp

\* two actions were dispatched, the second raised: two pairs of records
C8_Witness ==
    \E p \in Procs :
        /\ pc[p] = "raised"
        /\ hist[p].dispatched = <<1, 2>>
        /\ Len(logger_actions) = 4
        /\ logger_actions[4].error # None

\* C9: when an audit write fails during act (text log, JSON log or element
\* details), the handler is still dispatched and act returns the handler's
\* ActionResult.
C9_Resilience ==
    \A p \in Procs :
        (hist[p].failed_writes # {} /\ pc[p] \in {"finally", "append", "sleep", "raised"}) =>
            /\ hist[p].dispatched # <<>>
            /\ Last(hist[p].dispatched) = Last(hist[p].act_calls)
            /\ hist[p].raised_in # "element_details_write"
            /\ (pc[p] # "finally" /\ hist[p].raised_in = None) =>
                  frame[p].action_result # <<>>

\* C10: a batch of N indexed requests on existing elements, with handlers
\* that succeed and no structural change, returns N results without error.
C10_NormalBatch ==
    \A p \in Procs :
        (/\ pc[p] \in {"returned", "raised"}
         /\ browser_context[p] # None
         /\ \A k \in DOMAIN actions[p] :
               /\ actions[p][k].name \in IndexedActions
               /\ actions[p][k].index \in DOMAIN dom[browser_context[p]]
         /\ ~hist[p].handler_failed
         /\ ~hist[p].structure_changed)
            => /\ pc[p] = "returned"
               /\ Len(results[p]) = Len(actions[p])
               /\ \A k \in DOMAIN results[p] : results[p][k].error = None

\* C11: in act, a handler's return value that is a string becomes
\* ActionResult(extracted_content=value), an ActionResult is passed through
\* unchanged, None becomes the empty ActionResult without error, and a value
\* of any other type makes act raise "Invalid action result type", which
\* leaves act and multi_act.
C11_Normalization ==
    \A p \in Procs :
        hist[p].returned # <<>> =>
            LET v == hist[p].returned[1]
            IN /\ v.type = "str" =>
                     frame[p].action_result = <<ActionResult(v.str, None, FALSE, FALSE)>>
               /\ v.type = "ActionResult" => frame[p].action_result = <<v.ar>>
               /\ v.type = "NoneType" =>
                     frame[p].action_result = <<ActionResult(None, None, FALSE, FALSE)>>
               /\ v.type \in {"str", "ActionResult", "NoneType"} =>
                     /\ frame[p].exc = None
                     /\ pc[p] # "raised"
               /\ v.type \notin {"str", "ActionResult", "NoneType"} =>
                     /\ frame[p].action_result = <<>>
                     /\ frame[p].exc = MsgInvalidResult
                     /\ hist[p].raised_in = "act"
                     /\ pc[p] \in {"finally", "raised"}

\* a custom handler returned a string, then a dict: one result, then a raise
C11_Witness ==
    \E p \in Procs :
        /\ pc[p] = "raised"
        /\ hist[p].returned # <<>>
        /\ hist[p].returned[1].type = "dict"
        /\ results[p] = <<ActionResult("custom text", None, FALSE, FALSE)>>

\* C12: an exception for a wiring error (unknown action name, invalid type
\* of a handler's return value, no session) leaves act and multi_act: no
\* ActionResult is made of it, no result is appended for the request, and
\* the batch never returns a list.
C12_WiringErrorsPropagate ==
    \A p \in Procs :
        hist[p].raised_in \in {"registry", "act", "session"} =>
            /\ pc[p] \in {"finally", "raised"}
            /\ frame[p].exc # None
            /\ frame[p].action_result = <<>>
            /\ hist[p].stop_reason = None
            /\ Len(results[p]) = Len(hist[p].act_calls) - 1
                   \/ (hist[p].raised_in = "session" /\ results[p] = <<>>)
            /\ hist[p].raised_in = "registry" =>
                  frame[p].exc = MsgUnknownAction(frame[p].action_name)
            /\ hist[p].raised_in = "act" => frame[p].exc = MsgInvalidResult
            /\ hist[p].raised_in = "session" => frame[p].exc = MsgNoSession

\* the second request names an action the registry does not have
C12_Witness ==
    \E p \in Procs :
        /\ pc[p] = "raised"
        /\ hist[p].raised_in = "registry"
        /\ frame[p].exc = MsgUnknownAction("foreign_action")
        /\ Len(results[p]) = 1
        /\ Len(actions[p]) = 2

\* reachability of the two other wiring errors
C12_InvalidTypeReached ==
    \E p \in Procs : pc[p] = "raised" /\ hist[p].raised_in = "act"
C12_NoSessionReached ==
    \E p \in Procs : pc[p] = "raised" /\ hist[p].raised_in = "session"

\* C13: the changes of a post-action record have exactly the fields that
\* both snapshots have and whose values differ, each with the value before
\* and the value after; a field with equal values, or a field that only one
\* snapshot has, is absent.
C13_DiffCorrectness ==
    (host.returned # <<>> /\ host.pre_arg # NoInfo /\ host.post # NoInfo) =>
        LET pre == host.pre_arg[1]
            post == host.post[1]
            diff == host.returned[1].changes
        IN /\ logger_actions # <<>> => host.returned[1] = Last(logger_actions)
           /\ DOMAIN diff \subseteq DOMAIN pre \cap DOMAIN post
           /\ \A key \in DOMAIN pre \cap DOMAIN post :
                 IF pre[key] = post[key] THEN key \notin DOMAIN diff
                 ELSE /\ key \in DOMAIN diff
                      /\ diff[key] = [before |-> pre[key], after |-> post[key]]

\* the host passes the snapshot {text A, visible}, the element then has text
\* B and is visible: the diff is exactly the text, with before A and after B
C13_Witness ==
    /\ host.returned # <<>>
    /\ host.pre_arg = <<[text_content |-> "A", is_visible |-> TRUE]>>
    /\ host.post # NoInfo
    /\ host.post[1].text_content = "B"
    /\ host.post[1].is_visible
    /\ DOMAIN host.returned[1].changes = {"text_content"}
    /\ host.returned[1].changes["text_content"] = [before |-> "A", after |-> "B"]

\* two snapshots of store_element_info: a field that only the later one has
\* is absent, and the time of the snapshot is a field that differs
C13_SnapshotsReached ==
    /\ host.returned # <<>>
    /\ host.pre_arg # NoInfo
    /\ host.post # NoInfo
    /\ "value" \in DOMAIN host.post[1] \ DOMAIN host.pre_arg[1]
    /\ DOMAIN host.returned[1].changes = {"text_content", "attributes", "timestamp"}

IsRecordBlock(entry) == entry.kind \in {"PRE-ACTION", "POST-ACTION"}
PhaseOf(kind) == IF kind = "PRE-ACTION" THEN "pre-action" ELSE "post_action"
TextMirror(file) ==
    LET blocks == SelectSeq(file, IsRecordBlock)
    IN [k \in DOMAIN blocks |->
           [phase |-> PhaseOf(blocks[k].kind), action_type |-> blocks[k].action_type,
            timestamp |-> blocks[k].timestamp]]
Headlines(records) ==
    [k \in DOMAIN records |->
        [phase |-> records[k].phase, action_type |-> records[k].action_type,
         timestamp |-> records[k].timestamp]]

\* C15: the records of the run are one sequence that a logging call only
\* extends at its end by one record (the construction of a logger starts the
\* sequence of a new run), and, the log files being writable, every record
\* of the sequence is in the JSON file and has its block in the text file,
\* in the order of the sequence.
C15_AppendOnlyMirrored ==
    /\ [](/\ json_log_file = logger_actions
          /\ TextMirror(log_file) = Headlines(logger_actions))
    /\ [][\/ logger_actions' = logger_actions
          \/ /\ Len(logger_actions') = Len(logger_actions) + 1
             /\ SubSeq(logger_actions', 1, Len(logger_actions)) = logger_actions
          \/ host.inits' = host.inits + 1 /\ logger_actions' = <<>>]_vars

\* a pre-action and a post-action record are in memory and in both files
C15_Witness ==
    /\ Len(logger_actions) = 2
    /\ logger_actions[1].phase = "pre-action"
    /\ logger_actions[2].phase = "post_action"
    /\ json_log_file = logger_actions
    /\ Len(log_file) = 3
    /\ host.returned = <<logger_actions[2]>>

\* the two text entries of the host's last post-action call
LastDetail == log_file[Len(log_file) - 1]
LastSummary == log_file[Len(log_file)]
IsLong(text) == Truthy(text) /\ Len(text) > MAX_RESULT_LENGTH

\* C16 as stated: a result text and an error text longer than the maximum
\* length are cut in the text log, and the JSON record has them in full.
C16_ResultAndErrorTruncated ==
    (host.returned # <<>> /\ host.since_init > 0) =>
        /\ IsLong(host.outcome.result) =>
              /\ Len(LastDetail.result) < Len(host.outcome.result) + Len(Marker)
              /\ Len(LastSummary.result) < Len(host.outcome.result) + Len(Marker)
        /\ IsLong(host.outcome.error) =>
              /\ LastDetail.error # host.outcome.error
              /\ LastSummary.error # host.outcome.error
        /\ Last(json_log_file).result = host.outcome.result
        /\ Last(json_log_file).error = host.outcome.error

\* C16, the part the logger keeps: a result text longer than the maximum length is written to
\* the text log as its first MAX_RESULT_LENGTH characters and a marker, in
\* the POST-ACTION block and in the summary, and a shorter one as it is; an
\* error text is written in full whatever its length; the JSON record has
\* the result and the error in full.
C16_OnlyResultTruncated ==
    (host.returned # <<>> /\ host.since_init > 0) =>
        /\ LastDetail.kind = "POST-ACTION"
        /\ LastSummary.kind = "SUMMARY"
        /\ LastDetail.result = LastSummary.result
        /\ LastDetail.error = LastSummary.error
        /\ IsLong(host.outcome.result) =>
              /\ Len(LastDetail.result) = MAX_RESULT_LENGTH + Len(Marker)
              /\ SubSeq(LastDetail.result, 1, MAX_RESULT_LENGTH)
                    = SubSeq(host.outcome.result, 1, MAX_RESULT_LENGTH)
        /\ ~IsLong(host.outcome.result) => LastDetail.result = host.outcome.result
        /\ LastDetail.error = host.outcome.error
        /\ Last(json_log_file).result = host.outcome.result
        /\ Last(json_log_file).error = host.outcome.error
        /\ host.returned[1].result = host.outcome.result
        /\ host.returned[1].error = host.outcome.error

\* a result of 27 characters is in the text log as 20 characters and the
\* marker, and in the JSON record in full
C16_Witness ==
    /\ host.returned # <<>>
    /\ host.since_init > 0
    /\ host.outcome.result = "Clicked button with index 1"
    /\ LastSummary.result = "Clicked button with " \o Marker
    /\ Last(json_log_file).result = "Clicked button with index 1"

\* an error of 24 characters is in the text log in full
C16_LongErrorReached ==
    /\ host.returned # <<>>
    /\ host.since_init > 0
    /\ IsLong(host.outcome.error)
    /\ LastDetail.error = "Timeout 30000ms exceeded"

\* the request the current handler of p was called for
Dispatched(p) == actions[p][Last(hist[p].dispatched)]
Refusal(index) == ActionResult(MsgFileUpload(index), None, FALSE, TRUE)

\* C17: when click_element is dispatched on an element that the browser
\* context reports as a file uploader, the driver click is not invoked, the
\* handler returns a result without error whose extracted_content explains
\* the refusal and whose include_in_memory is true, and that result is what
\* act hands to the batch.
C17_FileUploadGuard ==
    \A p \in DOMAIN pc :
        "is_file_uploader" \in hist[p].driver =>
            /\ Dispatched(p).name = "click_element"
            /\ "_click_element_node" \notin hist[p].driver
            /\ hist[p].returned
                 = <<ReturnValue("ActionResult", "", Refusal(Dispatched(p).index))>>
            /\ frame[p].action_result = <<Refusal(Dispatched(p).index)>>
            /\ frame[p].error = None
            /\ (hist[p].result_of # <<>>
                  /\ Last(hist[p].result_of) = Last(hist[p].dispatched))
                 => Last(results[p]) = Refusal(Dispatched(p).index)

\* a click on a file uploader was refused and the refusal is in the results
C17_Witness ==
    \E p \in DOMAIN pc :
        /\ "is_file_uploader" \in hist[p].driver
        /\ pc[p] = "returned"
        /\ results[p] # <<>>
        /\ Last(results[p]).error = None
        /\ Last(results[p]).include_in_memory
        /\ Last(results[p]).extracted_content
             = "Index 1 - has an element which opens file upload dialog"

\* the audit records of the current act call of p name p's own session
OwnRecords(p) ==
    \A k \in DOMAIN hist[p].records :
        LET record == hist[p].records[k]
        IN /\ record.current_url = current_url(browser_context[p])
           /\ (record.phase = "pre-action" /\ record.element_info # NoInfo)
                => record.element_info[1].context = browser_context[p]

\* C18: when two batches run on one Controller, each holding a browser
\* context of its own, the element snapshot and the current URL of every
\* audit record come from the browser context of the batch that dispatched
\* the action.
C18_NoInterference ==
    \A p \in DOMAIN pc :
        (\A q \in DOMAIN pc \ {p} : browser_context[q] # browser_context[p])
            => OwnRecords(p)

\* both batches are under way, each on its own browser context, and an
\* action of one of them has its pre-action record
C18_BothRunning ==
    /\ Cardinality(DOMAIN pc) = 2
    /\ \A p \in DOMAIN pc : Running(p) /\ browser_context[p] # None
    /\ \A p, q \in DOMAIN pc : p # q => browser_context[p] # browser_context[q]
    /\ \E p \in DOMAIN pc : hist[p].records # <<>>

\* C19: when a write of the text log or of the JSON log fails during
\* log_action_before_execute or log_action_after_execute (the latter through
\* _save_json as well), nothing is raised to the caller, and the call returns
\* what it returns otherwise: the pre-action snapshot, or the post-action
\* record, which is also the last record the logger holds.
C19_WriteFailuresCaught ==
    /\ host.exc = None
    /\ host.pc # "raised"
    /\ (host.failed_writes # {} /\ host.pc = "logged") =>
          /\ host.pre = (IF host.element_index # NoIndex
                         THEN store_element_info(logger_browser_context, host.element_index)
                         ELSE NoInfo)
          /\ Last(logger_actions).phase = "pre-action"
          /\ Last(logger_actions).element_info = host.pre
    /\ (host.failed_writes # {} /\ host.pc = "idle" /\ host.since_init > 0) =>
          /\ host.returned # <<>>
          /\ host.returned[1] = Last(logger_actions)
          /\ host.returned[1].phase = "post_action"
          /\ host.returned[1].action_type = host.action_type
          /\ host.returned[1].result = host.outcome.result
          /\ host.returned[1].error = host.outcome.error

\* the JSON write of a pre-action call failed and the snapshot was returned
\* all the same; the record is in memory and not in the file
C19_Witness ==
    /\ host.pc = "logged"
    /\ "json" \in host.failed_writes
    /\ host.pre # NoInfo
    /\ Len(logger_actions) = Len(json_log_file) + 1

\* the text write of a post-action call failed and the record was returned
C19_PostReached ==
    /\ host.pc = "idle"
    /\ "text" \in host.failed_writes
    /\ host.returned # <<>>
    /\ host.returned[1].phase = "post_action"

\* request k of the batch of p has run to its end: act was called on it, its
\* handler was dispatched, its result is a result of its handler and is in
\* the results list, and its pre-action and post-action records are made
Completed(p, k) ==
    /\ k <= Len(results[p])
    /\ results[p][k] \in ResultsOf(actions[p][k])
    /\ k <= Len(hist[p].dispatched)
    /\ hist[p].dispatched[k] = k
    /\ hist[p].act_calls[k] = k
    /\ hist[p].result_of[k] = k
    /\ 2 * k <= Len(logger_actions)
    /\ logger_actions[2 * k - 1].phase = "pre-action"
    /\ logger_actions[2 * k - 1].action_type = actions[p][k].name
    /\ logger_actions[2 * k].phase = "post_action"
    /\ logger_actions[2 * k].action_type = actions[p][k].name

\* a step in which the staleness check or the act call of a request begins
Begins(p) ==
    \/ hist[p].checked_at' # hist[p].checked_at
    \/ hist[p].act_calls' # hist[p].act_calls

\* C20: within a batch the staleness check and the act call of request k+1
\* begin only when requests 1..k have all run to their end, each with its
\* pre-action record, its dispatch, its post-action record and a result of
\* its handler in the results list, and nothing of request k+1 has been
\* recorded or dispatched; the pre-action record and the dispatch of a
\* request are those of the one act call in progress.
C20_OneAtATime ==
    [][\A p \in DOMAIN pc :
          /\ (pc[p] = "for" /\ Begins(p)) =>
                /\ Len(results[p]) = i[p] - 1
                /\ Len(hist[p].act_calls) = i[p] - 1
                /\ Len(hist[p].dispatched) = i[p] - 1
                /\ Len(logger_actions) = 2 * (i[p] - 1)
                /\ \A k \in 1..(i[p] - 1) : Completed(p, k)
          /\ Begins(p) => pc[p] = "for"
          /\ (pc[p] \in {"act", "execute"} /\ pc'[p] \in {"execute", "finally"}) =>
                /\ Last(hist[p].act_calls) = i[p]
                /\ Len(results[p]) = i[p] - 1
                /\ Len(logger_actions') = 2 * (i[p] - 1) + 1]_vars

\* the second request of a batch is being dispatched: the first one has its
\* result and its two records, the second one its pre-action record only
C20_Witness ==
    \E p \in DOMAIN pc :
        /\ pc[p] = "finally"
        /\ i[p] = 2
        /\ hist[p].checked_at = 2
        /\ Completed(p, 1)
        /\ Len(results[p]) = 1
        /\ Len(logger_actions) = 3

NoDuplicates(seq) == \A j, k \in DOMAIN seq : j # k => seq[j] # seq[k]

\* C21: in one multi_act call no request position is handed to act or
\* dispatched to its handler twice and none gives two results; the error of
\* a handler that raised leaves act as the exception and gives no result,
\* and the error of a handler that returned it is in the one result of its
\* request, without an exception.
C21_NoRetries ==
    \A p \in DOMAIN pc :
        /\ NoDuplicates(hist[p].act_calls)
        /\ NoDuplicates(hist[p].dispatched)
        /\ NoDuplicates(hist[p].result_of)
        /\ Len(hist[p].dispatched) <= Len(actions[p])
        /\ (hist[p].handler_raised # None /\ pc[p] \in {"finally", "raised"}) =>
              /\ frame[p].exc = hist[p].handler_raised
              /\ frame[p].error = hist[p].handler_raised
              /\ Len(results[p]) = Len(hist[p].dispatched) - 1
        /\ (/\ hist[p].returned # <<>>
            /\ hist[p].returned[1].type = "ActionResult"
            /\ hist[p].returned[1].ar.error # None
            /\ pc[p] \in {"returned", "sleep", "for"}
            /\ hist[p].result_of # <<>>
            /\ Last(hist[p].result_of) = Last(hist[p].dispatched)) =>
              /\ Last(results[p]).error = hist[p].returned[1].ar.error
              /\ frame[p].exc = None
              /\ Len(results[p]) = Len(hist[p].dispatched)

\* the second click of a batch returned an error: two dispatches, two
\* results, the error in the second one only
C21_Witness ==
    \E p \in DOMAIN pc :
        /\ pc[p] = "returned"
        /\ hist[p].dispatched = <<1, 2>>
        /\ Len(results[p]) = 2
        /\ results[p][1].error = None
        /\ results[p][2].error = "Timeout 30000ms exceeded"

\* a handler raised: its error left multi_act as the exception
C21_RaisedReached ==
    \E p \in DOMAIN pc :
        /\ pc[p] = "raised"
        /\ hist[p].handler_raised = "Timeout 30000ms exceeded"
        /\ results[p] = <<>>

\* the request at position k of the batch of p is one that is not checked
Unchecked(p, k) == k = 1 \/ get_index(actions[p][k]) = NoIndex
Unseen(p) ==
    /\ browser_context[p] # None
    /\ ~(path_hashes(dom[browser_context[p]]) \subseteq cached_path_hashes[p])

\* C22: the page is read again and compared only before a request that is
\* not the first one and has an element index.  The loop hands the first
\* request of a batch and every request without an index to act without
\* reading the page, whatever hashes the page shows, so the first request
\* of a non-empty batch is always executed and a batch is never aborted for
\* staleness at such a request.
C22_CheckOnlyIndexedAfterFirst ==
    /\ [](\A p \in DOMAIN pc :
            /\ hist[p].checked_at # 0 => ~Unchecked(p, hist[p].checked_at)
            /\ hist[p].stop_reason = "AbortedByStaleness" => ~Unchecked(p, i[p])
            /\ (actions[p] # <<>> /\ pc[p] \in {"returned", "sleep", "append"})
                  => (hist[p].act_calls # <<>> /\ hist[p].act_calls[1] = 1))
    /\ [][\A p \in DOMAIN pc :
            (pc[p] = "for" /\ pc'[p] # "for" /\ i[p] <= Len(actions[p])
                /\ Unchecked(p, i[p])) =>
                /\ pc'[p] = "act"
                /\ hist'[p].act_calls = Append(hist[p].act_calls, i[p])
                /\ hist'[p].checked_at = hist[p].checked_at
                /\ UNCHANGED <<cached_state, new_path_hashes>>]_vars

\* a request without an index, second in its batch, is handed to act while
\* the page shows a hash that was not there at batch start
C22_Witness ==
    \E p \in DOMAIN pc :
        /\ pc[p] = "act"
        /\ i[p] = 2
        /\ get_index(actions[p][2]) = NoIndex
        /\ check_for_new_elements[p]
        /\ Unseen(p)
        /\ hist[p].checked_at = 0
        /\ hist[p].act_calls = <<1, 2>>

\* C22, the handler of the first request: act dispatches it unless the write
\* of the element details raises before (C9)
C22_ExecutedUnlessDetailsWriteRaises ==
    \A p \in DOMAIN pc :
        (actions[p] # <<>> /\ browser_context[p] # None
            /\ pc[p] \in {"returned", "raised"}
            /\ hist[p].raised_in # "element_details_write")
            => (hist[p].dispatched # <<>> /\ hist[p].dispatched[1] = 1)

\* C23: a multi_act call with check_for_new_elements false is never ended by
\* the staleness test; when it returns, every result but the last has
\* neither is_done nor a truthy error, and the last one has is_done or a
\* truthy error or is the result of the last request.
C23_NoAbortWithoutCheck ==
    \A p \in DOMAIN pc :
        ~check_for_new_elements[p] =>
            /\ hist[p].stop_reason # "AbortedByStaleness"
            /\ pc[p] = "returned" =>
                  /\ \A k \in 1..(Len(results[p]) - 1) :
                        ~results[p][k].is_done /\ ~Truthy(results[p][k].error)
                  /\ actions[p] = <<>> => results[p] = <<>>
                  /\ actions[p] # <<>> =>
                        /\ results[p] # <<>>
                        /\ \/ Last(results[p]).is_done
                           \/ Truthy(Last(results[p]).error)
                           \/ Len(results[p]) = Len(actions[p])

\* with check_for_new_elements false the page was read before the second,
\* indexed request, showed a hash not there at batch start, and the request
\* was executed all the same
C23_Witness ==
    \E p \in DOMAIN pc :
        /\ ~check_for_new_elements[p]
        /\ pc[p] = "returned"
        /\ hist[p].checked_at = 2
        /\ ~(new_path_hashes[p] \subseteq cached_path_hashes[p])
        /\ Len(results[p]) = 2
        /\ hist[p].dispatched = <<1, 2>>

\* act of p has passed its pre-action logging for a request whose index is
\* not in the cached selector map
Unresolved(p) ==
    /\ pc[p] \in {"finally", "append"} \/ (pc[p] = "raised" /\ hist[p].act_calls # <<>>)
    /\ frame[p].element_index # NoIndex
    /\ frame[p].element_index \notin DOMAIN cached_state[browser_context[p]]
MsgNotExist(action) ==
    IF action.name = "click_element" THEN MsgClickNotExist(action.index)
    ELSE MsgInputNotExist(action.index)

PreRecord(p) == hist[p].records[1]
InAct(p) == pc[p] \in {"execute", "finally"} /\ hist[p].records # <<>>

\* C25 as stated: for every request that carries an element index, the
\* pre-action record has that index, and the snapshot of the element when
\* the cached selector map has it.
C25_IndexAndSnapshotRecorded ==
    \A p \in DOMAIN pc :
        (InAct(p) /\ get_index(actions[p][i[p]]) # NoIndex) =>
            /\ PreRecord(p).element_index = get_index(actions[p][i[p]])
            /\ get_index(actions[p][i[p]]) \in DOMAIN cached_state[browser_context[p]]
                  => PreRecord(p).element_info # NoInfo

\* C25, the part that holds: the index and the snapshot are recorded for
\* click_element and input_text; a snapshot that cannot be taken leaves the
\* record without one and the handler is dispatched all the same; for the
\* dropdown actions the record has neither.
C25_RecordedForClickAndInputOnly ==
    \A p \in DOMAIN pc :
        InAct(p) =>
            LET action == actions[p][i[p]]
                mapped == get_index(action) \in DOMAIN cached_state[browser_context[p]]
            IN /\ action.name \in {"click_element", "input_text"} =>
                    /\ PreRecord(p).element_index = get_index(action)
                    /\ mapped => PreRecord(p).element_info # NoInfo
                    /\ ~mapped => PreRecord(p).element_info = NoInfo
                    /\ (~mapped /\ pc[p] = "finally") => Last(hist[p].dispatched) = i[p]
               /\ action.name \in DropdownActions =>
                    /\ PreRecord(p).element_index = NoIndex
                    /\ PreRecord(p).element_info = NoInfo

\* get_dropdown_options on a mapped element was dispatched with a pre-action
\* record that names no element
C25_DropdownReached ==
    \E p \in DOMAIN pc :
        /\ pc[p] = "finally"
        /\ actions[p][i[p]].name = "get_dropdown_options"
        /\ actions[p][i[p]].index \in DOMAIN cached_state[browser_context[p]]
        /\ PreRecord(p).element_index = NoIndex

PostRecords(records) == {k \in DOMAIN records : records[k].phase = "post_action"}

\* C26: every dispatch is followed by exactly one post-action record, made
\* before act returns or raises.  When the dispatch raised (the handler, the
\* registry, or the test of the returned type), the record has the message
\* of the exception as its error and no result, and the exception leaves act
\* after it; when the dispatch returned, the record has no error and the
\* result text.
C26_PostRecordAlways ==
    \A p \in DOMAIN pc :
        /\ (pc[p] \in {"append", "raised"} /\ hist[p].dispatched # <<>>
              /\ Last(hist[p].dispatched) = i[p]) =>
              /\ Len(hist[p].records) = 2
              /\ hist[p].records[1].phase = "pre-action"
              /\ hist[p].records[2].phase = "post_action"
              /\ hist[p].records[2].action_type = actions[p][i[p]].name
              /\ Last(logger_actions) = hist[p].records[2]
              /\ Cardinality(PostRecords(logger_actions)) = Len(hist[p].dispatched)
        /\ (pc[p] = "raised" /\ hist[p].raised_in \in {"handler", "registry", "act"}) =>
              /\ Last(hist[p].dispatched) = i[p]
              /\ frame[p].exc # None
              /\ hist[p].records[2].error = frame[p].exc
              /\ hist[p].records[2].result = None
        /\ (pc[p] = "append" /\ frame[p].action_result # <<>>) =>
              /\ hist[p].records[2].error = None
              /\ hist[p].records[2].result = frame[p].result_str
        /\ pc[p] = "finally" => Len(hist[p].records) = 1

\* a handler raised on the second request: the batch ended with the
\* exception, and the last record is the post-action record with its message
C26_Witness ==
    \E p \in DOMAIN pc :
        /\ pc[p] = "raised"
        /\ hist[p].dispatched = <<1, 2>>
        /\ hist[p].handler_raised = "Timeout 30000ms exceeded"
        /\ Last(logger_actions).phase = "post_action"
        /\ Last(logger_actions).error = "Timeout 30000ms exceeded"
        /\ Last(logger_actions).result = None

\* the same with an exception whose message is empty
C26_EmptyMessageReached ==
    \E p \in DOMAIN pc :
        /\ pc[p] = "raised"
        /\ hist[p].handler_raised = ""
        /\ Last(logger_actions).error = ""

DonePositions(p) == {k \in DOMAIN actions[p] : actions[p][k].name = "done"}
FirstDone(p) == CHOOSE k \in DonePositions(p) : \A j \in DonePositions(p) : k <= j

\* C27: done is a registered action, registered with the custom output
\* model or with DoneAction; its handler returns a result with is_done true
\* and no error; a batch with a done request that returns without an abort
\* for staleness or for an error has as many results as the position of its
\* first done request, the last of them is the result of done, and the batch
\* ended as AbortedByDone.
C27_DoneEndsBatch ==
    \A p \in DOMAIN pc :
        /\ "done" \in registry
        /\ (hist[p].dispatched # <<>> /\ Dispatched(p).name = "done"
              /\ pc[p] \in {"finally", "append", "returned"}) =>
              /\ hist[p].handler_raised = None
              /\ hist[p].returned # <<>>
              /\ hist[p].returned[1].type = "ActionResult"
              /\ hist[p].returned[1].ar.is_done
              /\ hist[p].returned[1].ar.error = None
              /\ hist[p].returned[1].ar.extracted_content \in {MsgDone, MsgDoneJson}
        /\ (pc[p] = "returned" /\ DonePositions(p) # {}
              /\ hist[p].stop_reason \notin {"AbortedByStaleness", "AbortedByError"}) =>
              /\ Len(results[p]) = FirstDone(p)
              /\ Last(results[p]).is_done
              /\ Last(results[p]).error = None
              /\ hist[p].stop_reason = "AbortedByDone"
              /\ \A k \in 1..(FirstDone(p) - 1) : ~results[p][k].is_done

\* a batch of done and another request: one result, that of done, and the
\* second request was never handed to act
C27_Witness ==
    \E p \in DOMAIN pc :
        /\ pc[p] = "returned"
        /\ Len(actions[p]) = 2
        /\ actions[p][1].name = "done"
        /\ Len(results[p]) = 1
        /\ results[p][1].is_done
        /\ hist[p].act_calls = <<1>>
        /\ hist[p].stop_reason = "AbortedByDone"

\* done at the second position, after a click: two results
C27_SecondPositionReached ==
    \E p \in DOMAIN pc :
        /\ pc[p] = "returned"
        /\ Len(actions[p]) = 2
        /\ actions[p][1].name = "click_element"
        /\ actions[p][2].name = "done"
        /\ Len(results[p]) = 2
        /\ results[p][2].is_done
        /\ results[p][2].extracted_content = MsgDoneJson

\* the records that the directory of the run holds: those of the JSON log
\* and those of its backup files
JsonBackups(copies) == UNION {Range(b.content) : b \in {c \in copies : c.name.ext = "json"}}
Kept(file, copies) == Range(file) \cup JsonBackups(copies)

\* C28: a record of the JSON log is never removed without a backup: after
\* every operation (a log call, the construction of another logger on the
\* directory) each record that the JSON log or one of its backups held is
\* still in the JSON log or in a backup.
C28_NoRecordLost ==
    [][Kept(json_log_file, backups) \subseteq Kept(json_log_file', backups')]_vars

\* two loggers constructed in one second after a logged action: the second
\* copy replaced the first, and the records of the run are in no file
C28_LostReached ==
    /\ host.logged = 1
    /\ host.inits = 2
    /\ host.failed = {}
    /\ host.since_init = 0
    /\ json_log_file = <<>>
    /\ \E b \in backups : b.name.ext = "json"
    /\ JsonBackups(backups) = {}
    /\ write_failures = 0

\* the log calls of one logger remove no record from the JSON log, and the
\* construction of a logger leaves the records of the log in the copy it makes
C28_RemovedOnlyByConstruction ==
    [][/\ host'.inits = host.inits =>
             Range(json_log_file) \subseteq Range(json_log_file')
       /\ host'.inits # host.inits =>
             Range(json_log_file) \subseteq JsonBackups(backups')]_vars

IsPrefix(s, t) == Len(s) <= Len(t) /\ SubSeq(t, 1, Len(s)) = s

\* C29: the cached hash set is assigned once, by the call of multi_act, and
\* no later step of the batch changes it; a staleness check that lets the
\* batch go on found the new hashes within that set, whatever the session's
\* cached state was before the re-read; the results list changes only by
\* one result appended at its end.
C29_BatchStateFrame ==
    /\ [](\A p \in DOMAIN pc :
             /\ (hist[p].checked_at > 0 /\ check_for_new_elements[p]
                   /\ hist[p].stop_reason # "AbortedByStaleness") =>
                   new_path_hashes[p] \subseteq cached_path_hashes[p]
             /\ hist[p].stop_reason = "AbortedByStaleness" =>
                   ~(new_path_hashes[p] \subseteq cached_path_hashes[p]))
    /\ [][\A p \in DOMAIN pc :
             /\ pc[p] # "idle" => cached_path_hashes'[p] = cached_path_hashes[p]
             /\ pc[p] # "idle" =>
                   \/ results'[p] = results[p]
                   \/ /\ Len(results'[p]) = Len(results[p]) + 1
                      /\ IsPrefix(results[p], results'[p])
                      /\ pc[p] = "append"
             /\ pc[p] = "idle" => results'[p] = <<>>]_vars

\* the third request of a batch was checked and handed to act: the new
\* hashes are within the set of the batch start and not within the hashes of
\* the state that the check of the second request had cached
C29_Witness ==
    \E p \in DOMAIN pc :
        /\ hist[p].checked_at = 3
        /\ check_for_new_elements[p]
        /\ pc[p] = "act"
        /\ Len(results[p]) = 2
        /\ new_path_hashes[p] \subseteq cached_path_hashes[p]
        /\ ~(new_path_hashes[p] \subseteq hist[p].prior_hashes)

\* the ActionResult that the handler of the current act call returned
HandlerResults(p) ==
    {r.ar : r \in {x \in Range(hist[p].returned) : x.type = "ActionResult"}}

\* C30: no built-in handler returns a result with both extracted_content
\* and error set, and a handler whose driver interaction failed does not
\* return an extracted_content without an error.
C30_NoSwallowedFailure ==
    \A p \in DOMAIN pc : \A ar \in HandlerResults(p) :
        /\ ~(ar.extracted_content # None /\ ar.error # None)
        /\ ("raised" \in hist[p].driver /\ ar.extracted_content # None) => ar.error # None

\* page.frames raised in get_dropdown_options: the message of the exception
\* is the content of the result, which has no error
C30_SwallowedReached ==
    \E p \in DOMAIN pc : \E ar \in HandlerResults(p) :
        /\ Dispatched(p).name = "get_dropdown_options"
        /\ hist[p].driver = {"page.frames", "raised"}
        /\ ar.extracted_content = MsgErrorGettingOptions("Timeout 30000ms exceeded")
        /\ ar.error = None

\* the first half of C30: no handler sets both fields
C30_NeverBoth ==
    \A p \in DOMAIN pc : \A ar \in HandlerResults(p) :
        ~(ar.extracted_content # None /\ ar.error # None)

Alternates(records) ==
    \A k \in DOMAIN records :
        /\ records[k].phase = IF k % 2 = 1 THEN "pre-action" ELSE "post_action"
        /\ k % 2 = 0 => records[k].action_type = records[k - 1].action_type

\* C31: after any sequence of calls made one at a time, calls that raise
\* included, the records of the logger alternate: pre, post, pre, post, and
\* each post record has the action type of the pre record before it.
C31_StrictAlternation == Alternates(logger_actions)

\* a call raised at the write of the element details, after its pre-action
\* record; the next call adds its own pre-action record behind it
C31_TwoPreRecordsReached ==
    /\ hist[1].raised_in = "element_details_write"
    /\ pc[1] = "raised"
    /\ pc[2] = "execute"
    /\ Len(logger_actions) = 2
    /\ logger_actions[1].phase = "pre-action"
    /\ logger_actions[2].phase = "pre-action"

\* the records alternate as long as no call was left at the write of the
\* element details
C31_AlternatesUnlessDetailsWriteRaises ==
    (\A p \in DOMAIN pc : hist[p].raised_in # "element_details_write") =>
        Alternates(logger_actions)

\* C32: a JSON write that succeeds stores the whole record sequence of the
\* logger: after a log call whose JSON write did not fail, the actions list
\* of the file is the sequence in memory, the records included whose own
\* write failed before.
C32_SelfHealing ==
    /\ []((host.pc \in {"logged", "idle", "raised"} /\ host.since_init > 0
             /\ "json" \notin host.failed_writes) =>
             json_log_file = logger_actions)
    /\ [][(Len(logger_actions') = Len(logger_actions) + 1
             /\ json_log_file' # json_log_file /\ json_log_file' # <<>>) =>
             json_log_file' = logger_actions']_vars

\* the write of the pre-action record failed after the file was truncated;
\* the write of the post record succeeded and the file has both records
C32_Witness ==
    /\ host.pc = "idle"
    /\ host.logged = 1
    /\ host.inits = 0
    /\ write_failures = 1
    /\ host.failed_writes = {}
    /\ Len(log_file) = 3
    /\ Len(logger_actions) = 2
    /\ json_log_file = logger_actions
    /\ json_log_file[1].phase = "pre-action"

\* a failed write left the file without the records it had
C32_TruncatedReached ==
    /\ host.pc = "idle"
    /\ "json" \in host.failed_writes
    /\ Len(logger_actions) = 2
    /\ json_log_file = <<>>

\* C33: in any sequence of act and multi_act calls made one after the other
\* on one Controller, with whatever browser context each, the element
\* snapshot and the current URL of the audit records of a call come from
\* the browser context that was passed to it.
C33_RecordsOfOwnContext ==
    \A p \in DOMAIN pc : pc[p] # "idle" => OwnRecords(p)

\* multi_act ran on one browser context; act, called afterwards with the
\* other one, made its pre-action record from the page of the first
C33_ForeignRecordReached ==
    \E p, q \in DOMAIN pc :
        /\ actions[q] = <<[name |-> "done", index |-> NoIndex]>>
        /\ frame[q].caller = "multi_act"
        /\ pc[q] = "returned"
        /\ browser_context[q] = "ctx1"
        /\ frame[p].caller = "host"
        /\ browser_context[p] = "ctx2"
        /\ pc[p] = "execute"
        /\ hist[p].records # <<>>
        /\ hist[p].records[1].current_url = current_url("ctx1")
        /\ hist[p].records[1].element_info # NoInfo
        /\ hist[p].records[1].element_info[1].context = "ctx1"

\* the records of a multi_act call are those of its own browser context
C33_OwnContextInMultiAct ==
    \A p \in DOMAIN pc :
        (pc[p] # "idle" /\ frame[p].caller = "multi_act") => OwnRecords(p)

\* positions in results of the results of click_element whose click raised
FailedClicks(p) ==
    {k \in DOMAIN results[p] :
        /\ k \in DOMAIN hist[p].result_of
        /\ actions[p][hist[p].result_of[k]].name = "click_element"
        /\ results[p][k].error # None}

\* C34: when the click of the driver raises in click_element, whatever the
\* message of the exception, the result of the handler ends the batch:
\* multi_act appends it, hands no later request to act and returns.
C34_FailedClickEndsBatch ==
    \A p \in DOMAIN pc : \A k \in FailedClicks(p) :
        /\ k = Len(results[p])
        /\ pc[p] = "returned"
        /\ Last(hist[p].act_calls) = hist[p].result_of[k]
        /\ hist[p].stop_reason = "AbortedByError"

\* the click of the first request raised an exception without a message,
\* and the second request was executed
C34_EmptyMessageGoesOnReached ==
    \E p \in DOMAIN pc :
        /\ Len(results[p]) = 2
        /\ 1 \in FailedClicks(p)
        /\ results[p][1].error = ""
        /\ hist[p].act_calls = <<1, 2>>
        /\ hist[p].dispatched = <<1, 2>>

\* C34 for the exceptions that have a message
C34_FailedClickWithMessageEndsBatch ==
    \A p \in DOMAIN pc : \A k \in FailedClicks(p) :
        results[p][k].error # "" =>
            /\ k = Len(results[p])
            /\ pc[p] = "returned"
            /\ Last(hist[p].act_calls) = hist[p].result_of[k]
            /\ hist[p].stop_reason = "AbortedByError"

BackupNames(copies) == {b.name : b \in copies}

\* C35: a backup file is never overwritten: every backup that the directory
\* holds is still there, with its content, after any later operation, and
\* an initialization adds backups under names that no earlier backup has.
C35_BackupNeverOverwritten ==
    [][/\ backups \subseteq backups'
       /\ host'.inits # host.inits =>
             /\ BackupNames(backups' \ backups) \cap BackupNames(backups) = {}
             /\ Cardinality(backups') = Cardinality(backups) + 2]_vars

\* two initializations in one second after a logged action: the directory
\* has the two backup files of the second one only, under the names the
\* first one had used
C35_OverwrittenReached ==
    /\ host.inits = 2
    /\ host.failed = {}
    /\ host.logged = 1
    /\ Cardinality(backups) = 2
    /\ \A b \in backups : b.name.timestamp = host.stamp /\ b.content = <<>>

\* the backups of an initialization whose timestamp no earlier backup has
\* are added to the earlier ones
C35_KeptWhenTimestampIsNew ==
    [][(host'.inits # host.inits
          /\ \A b \in backups : b.name.timestamp # host'.stamp) =>
          /\ backups \subseteq backups'
          /\ Cardinality(backups') = Cardinality(backups) + 2]_vars

\* the waits of line 475 that the call has made: i is advanced after each
Waits(p) == i[p] - 1

Bounded(p) ==
    /\ Len(hist[p].act_calls) <= Len(actions[p])
    /\ Len(hist[p].dispatched) <= Len(actions[p])
    /\ Len(results[p]) <= Len(actions[p])
    /\ (actions[p] = <<>> /\ pc[p] # "idle" /\ browser_context[p] # None) =>
          /\ pc[p] \in {"for", "returned"}
          /\ results[p] = <<>>
          /\ hist[p].dispatched = <<>>
          /\ hist[p].records = <<>>
          /\ logger_actions = <<>>
          /\ Waits(p) = 0

\* C36 as stated: multi_act terminates when every awaited call returns; it
\* dispatches at most len(actions) handlers and returns at most len(actions)
\* results; an empty batch returns an empty list without a dispatch and
\* without an audit record; and the wait is made between two iterations
\* only, never after the last executed request of the batch.
C36_TerminatesNoWaitAfterLast ==
    /\ [](\A p \in DOMAIN pc :
             /\ Bounded(p)
             /\ (pc[p] \in {"returned", "raised"} /\ hist[p].act_calls # <<>>) =>
                   Waits(p) = Len(hist[p].act_calls) - 1)
    /\ (pc[1] # "idle") ~> (pc[1] \in {"returned", "raised"})

\* C36 amended: the same, with the wait made after an executed request
\* whose result does not end the batch and that is not the last of the
\* list; the request that follows the wait may then be refused by the
\* staleness check, in which case the wait came after the last executed
\* request.
C36_TerminatesWaitBeforeNextRequest ==
    /\ [](\A p \in DOMAIN pc :
             /\ Bounded(p)
             /\ Waits(p) <= Len(hist[p].act_calls)
             /\ pc[p] = "sleep" =>
                   /\ i[p] < Len(actions[p])
                   /\ Len(results[p]) = i[p]
                   /\ ~Last(results[p]).is_done
                   /\ ~Truthy(Last(results[p]).error)
             /\ (pc[p] \in {"returned", "raised"} /\ hist[p].act_calls # <<>>
                   /\ hist[p].stop_reason # "AbortedByStaleness") =>
                   Waits(p) = Len(hist[p].act_calls) - 1
             /\ (pc[p] = "returned" /\ hist[p].stop_reason = "AbortedByStaleness") =>
                   Waits(p) = Len(hist[p].act_calls))
    /\ (pc[1] # "idle") ~> (pc[1] \in {"returned", "raised"})

\* a batch of two requests: the first was executed, the wait was made, and
\* the staleness check refused the second
C36_Witness ==
    \E p \in DOMAIN pc :
        /\ pc[p] = "returned"
        /\ Len(actions[p]) = 2
        /\ hist[p].stop_reason = "AbortedByStaleness"
        /\ hist[p].act_calls = <<1>>
        /\ Len(results[p]) = 1
        /\ Waits(p) = 1

\* an empty batch returned
C36_EmptyBatchReached ==
    \E p \in DOMAIN pc :
        /\ pc[p] = "returned"
        /\ actions[p] = <<>>
        /\ results[p] = <<>>
        /\ logger_actions = <<>>

\* a batch of two requests returned two results after one wait
C36_CompletedReached ==
    \E p \in DOMAIN pc :
        /\ pc[p] = "returned"
        /\ hist[p].stop_reason = "Completed"
        /\ Len(results[p]) = 2
        /\ Waits(p) = 1

LogFiles == <<log_file, json_log_file, backups, logger_actions>>

C37_OmittedReached ==
    /\ host.calls = 2
    /\ host.arg = None
    /\ host.instance = [id |-> 1, log_dir |-> OtherDir]
    /\ host.other_inits = 1

\* a call with another log_dir replaced the instance
C37_ReplacedReached ==
    /\ host.calls = 2
    /\ host.arg = OtherDir
    /\ host.instance = [id |-> 2, log_dir |-> OtherDir]
    /\ host.inits = 1
    /\ Len(json_log_file) = 2

\* C38: the diff of a post record is empty when the pre-action snapshot or
\* the post-action snapshot is absent; the post-action snapshot is absent
\* when the call has no element index, the logger has no browser context or
\* the index is not in the selector map of the session.
C38_NoDiffFromMissingSnapshot ==
    (host.returned # <<>> /\ host.since_init > 0) =>
        /\ (host.pre_arg = NoInfo \/ host.post = NoInfo) =>
              DOMAIN host.returned[1].changes = {}
        /\ (\/ host.element_index = NoIndex
            \/ logger_browser_context = None
            \/ host.element_index \notin DOMAIN cached_state[logger_browser_context]) =>
              /\ host.post = NoInfo
              /\ DOMAIN host.returned[1].changes = {}

\* the host passed the snapshot it got before the action; the index is no
\* longer in the selector map, and the post record has no changes
C38_Witness ==
    /\ host.returned # <<>>
    /\ host.pc = "idle"
    /\ host.element_index # NoIndex
    /\ host.pre_arg # NoInfo
    /\ host.pre_arg = host.pre
    /\ host.post = NoInfo
    /\ logger_browser_context # None
    /\ host.element_index \notin DOMAIN cached_state[logger_browser_context]
    /\ DOMAIN host.returned[1].changes = {}
    /\ Last(logger_actions) = host.returned[1]

\* no pre-action snapshot, and a post-action snapshot
C38_PreMissingReached ==
    /\ host.returned # <<>>
    /\ host.pc = "idle"
    /\ host.pre_arg = NoInfo
    /\ host.post # NoInfo
    /\ DOMAIN host.returned[1].changes = {}

====
